---- MODULE Spec2Model ----
(***************************************************************************)
(* Background-Remover.                                                     *)
(*                                                                         *)
(* SpecPool        : WorkerPool + worker execution contexts + file reads.  *)
(* SpecPoolFair    : the same with the environment making progress.       *)
(* SpecQueue       : QueueProvider.processQueue on top of the pool.        *)
(* SpecHistory     : CommandHistory.execute/undo/redo/clear, applyCommand. *)
(* SpecHistoryFull : the same, starting from a full command log.           *)
(* SpecRender      : RenderEngine.render calls on the shared canvas.       *)
(* SpecBatch       : ModeSelectionModal.processAllImages and its abort     *)
(*                   controller.                                           *)
(* SpecBatchPool   : the modal or the pool, from their initial state.      *)
(* SpecUpload      : Home page and UploadZone with validateImageFile.      *)
(* SpecFilter      : one call of RenderEngine.applyFilter.                *)
(* SpecSecurity    : the throttle state of lib/security.                  *)
(* SpecRemoveColor : one call of removeSpecificColor.                      *)
(* SpecProcessImage: one call of processImage in remove-color mode.      *)
(* SpecBlur        : one call of blurBackgroundOnly.                       *)
(* SpecChunks      : the chunk loop of both, one step per chunk and timer.*)
(* SpecEffects     : updateEffect/toggleEffect/addEffect/removeEffect on   *)
(*                   a heap of objects.                                    *)
(***************************************************************************)
EXTENDS Integers, Sequences, FiniteSets, TLC

VARIABLES
    \* ---- WorkerPool (class fields) ----
    initialized,   \* WorkerPool.initialized
    workers,       \* WorkerPool.workers : Seq of WorkerWrapper {id, worker, busy, currentJobId}
    queue,         \* WorkerPool.queue   : Seq of job ids (pending jobs, FIFO)
    activeJobs,    \* WorkerPool.activeJobs : the key set of the Map<JobId, WorkerJob>
    \* ---- environment of the pool ----
    ctx,           \* live Worker objects: instance id -> [tasks, out]
    reads,         \* suspended processNext continuations at `await job.file.arrayBuffer()`
    nextJob,       \* next job id handed to addJob (ids are unique, in addJob order)
    trace,         \* per job: the callbacks invoked on it and the cancelJob calls made for it
    spent,         \* environment events used so far (see MaxEvents)
    provider,      \* QueueProvider: items by id, isProcessing, and its pending promises
    \* ---- CommandHistory + the EditorState it is applied to ----
    commands,      \* CommandHistory.commands
    currentIndex,  \* CommandHistory.currentIndex (0-based as in the code, -1 = nothing to undo)
    editor,        \* the EditorState the apply function reads and replaces
    executed,      \* number of execute() calls made so far
    calls,         \* what the latest call did to the log, and the timestamps of
                   \* the commands that execute() has cut off the redo branch
    \* ---- RenderEngine singleton and the render() calls in progress ----
    canvas,        \* RenderEngine.offscreenCanvas with the state of its 2D context
    renders,       \* the render() calls made so far, each with its position
    microtasks,    \* the suspended render() calls whose awaited promise has resolved, oldest first
    scene,         \* the EditorState and the ImageBitmap the callers hand to render()
    \* ---- ModeSelectionModal: component state and useAbortController ----
    files,              \* the files prop
    controllerRef,      \* useAbortController's controllerRef.current (0 = null)
    aborted,            \* the controllers whose signal is aborted
    runs,               \* the processAllImages calls made so far, each with its locals
    processedResults,   \* state of the component
    isProcessing,       \* state of the component
    processingProgress, \* state of the component
    published,          \* the setProcessedResults(results) calls made after a loop
    \* ---- Home page and UploadZone ----
    pendingFiles,       \* Home: the files handed to the mode modal
    showModeModal,      \* Home: whether the modal is shown
    error,              \* UploadZone: the error text shown ("" = null)
    \* ---- lib/imageProcessing: one call of a pixel function ----
    arg,                \* the pixel data and parameters the call works on
    ret,                \* the pixel data it leaves on its canvas (done = it has run)
    \* ---- lib/editor/AutoProcessor: the effect functions on JS objects ----
    heap,               \* the objects allocated so far, by address
    cur,                \* address of the EditorState the caller holds
    last,               \* the latest call: function, arguments, number of calls made
    \* ---- lib/security: the module-level throttle state ----
    throttleState,      \* {lastProcessTime, processedHashes}
    now,                \* what Date.now() returns
    recorded,           \* the hashes handed to recordProcessing since the latest
                        \* clearProcessedCache / resetThrottleState
    secCall             \* the latest call made to the module and how many were made

poolVars == <<initialized, workers, queue, activeJobs, ctx, reads, nextJob, trace, spent,
              provider>>
histVars == <<commands, currentIndex, editor, executed, calls>>
renderVars == <<canvas, renders, microtasks, scene>>
batchVars == <<files, controllerRef, aborted, runs, processedResults, isProcessing,
               processingProgress, published>>
uploadVars == <<pendingFiles, showModeModal, error>>
pixelVars == <<arg, ret>>
effectVars == <<heap, cur, last>>
secVars == <<throttleState, now, recorded, secCall>>
notPool == <<histVars, renderVars, batchVars, uploadVars, pixelVars, effectVars, secVars>>
notHist == <<poolVars, renderVars, batchVars, uploadVars, pixelVars, effectVars, secVars>>
notRender == <<poolVars, histVars, batchVars, uploadVars, pixelVars, effectVars, secVars>>
notBatch == <<poolVars, histVars, renderVars, uploadVars, pixelVars, effectVars, secVars>>
notUpload == <<poolVars, histVars, renderVars, batchVars, pixelVars, effectVars, secVars>>
notPixel == <<poolVars, histVars, renderVars, batchVars, uploadVars, effectVars, secVars>>
notEffect == <<poolVars, histVars, renderVars, batchVars, uploadVars, pixelVars, secVars>>
notSec == <<poolVars, histVars, renderVars, batchVars, uploadVars, pixelVars, effectVars>>
vars == <<poolVars, histVars, renderVars, batchVars, uploadVars, pixelVars, effectVars, secVars>>

(***************************************************************************)
(* Bounds and program constants                                            *)
(***************************************************************************)
MAX_CONCURRENCY == 2

MaxJobs == 4

\* Budget of environment events per run: cancelJob calls, rejected file reads,
\* removeBackground failures and progress reports, all together.
MaxEvents == 2

NoJob == 0

JobIds == 1..MaxJobs

(***************************************************************************)
(* Worker script (backgroundRemoval.worker.ts)                             *)
(***************************************************************************)
\* Error messages removeBackground may throw, as character sequences.
RawErrors ==
    { <<"W","a","s","m">>,
      <<"w","e","b","a","s","s","e","m","b","l","y">>,
      <<"n","e","t">> }

LowerChar(c) == IF c = "W" THEN "w" ELSE c

ToLowerCase(s) == [i \in 1..Len(s) |-> LowerChar(s[i])]

Includes(s, sub) ==
    \E i \in 0..(Len(s) - Len(sub)) : \A k \in 1..Len(sub) : s[i + k] = sub[k]

IsWasmError(errorMessage) ==
    \/ Includes(ToLowerCase(errorMessage), <<"w","a","s","m">>)
    \/ Includes(ToLowerCase(errorMessage), <<"w","e","b","a","s","s","e","m","b","l","y">>)

NoText == [prefix |-> "", detail |-> <<>>]

\* WorkerResponse values; src is the job whose bytes the context was processing
\* when it produced the message (NoJob for 'ready').
NoMsg == [type |-> "none", src |-> NoJob, percent |-> 0, message |-> NoText, retryable |-> FALSE]

ReadyMsg == [NoMsg EXCEPT !.type = "ready"]

ProgressMsg(j, n) == [NoMsg EXCEPT !.type = "progress", !.src = j, !.percent = n]

CompleteMsg(j) == [NoMsg EXCEPT !.type = "complete", !.src = j]

ErrorMsg(j, errorMessage) ==
    [NoMsg EXCEPT
        !.type = "error",
        !.src = j,
        !.message = IF IsWasmError(errorMessage)
                    THEN [prefix |-> "WebAssembly failed to load. Your browser may not support this feature.",
                          detail |-> <<>>]
                    ELSE [prefix |-> "Failed to process image: ", detail |-> errorMessage],
        !.retryable = ~IsWasmError(errorMessage)]

\* A freshly constructed Worker that was sent {type:'init'}: handleInit sets
\* isReady before any 'process' message can be handled, so handleProcess never
\* takes its "Worker not initialized" branch.  The 'ready' reply is left out of
\* the queue of undelivered messages: handleMessage returns on it without
\* touching a field or calling a callback on every path (HandleMessageIn, OTHER).
NewContext == [tasks |-> {}, out |-> <<>>]

(***************************************************************************)
(* Callback records                                                        *)
(***************************************************************************)
Ev(cb, args, msg) == [cb |-> cb, args |-> args, msg |-> msg]

StartEv == Ev("onStart", <<>>, NoMsg)

CancelEv == Ev("cancelJob", <<>>, NoMsg)

ReadFailedText == [prefix |-> "Failed to read file", detail |-> <<>>]

(***************************************************************************)
(* WorkerPool                                                              *)
(***************************************************************************)
\* The whole pool state as one value, so that the methods compose.
Pool ==
    [initialized |-> initialized, workers |-> workers, queue |-> queue,
     activeJobs |-> activeJobs, ctx |-> ctx,
     reads |-> reads, trace |-> trace, provider |-> provider]

SetPool(P) ==
    /\ initialized' = P.initialized
    /\ workers' = P.workers
    /\ queue' = P.queue
    /\ activeJobs' = P.activeJobs
    /\ ctx' = P.ctx
    /\ reads' = P.reads
    /\ trace' = P.trace
    /\ provider' = P.provider

\* Array.prototype.find over the wrappers: the lowest index, 0 when none.
FindFree(ws) ==
    IF \E k \in 1..Len(ws) : ~ws[k].busy
    THEN CHOOSE k \in 1..Len(ws) : ~ws[k].busy /\ \A m \in 1..(k-1) : ws[m].busy
    ELSE 0

FindByJob(ws, id) ==
    IF \E k \in 1..Len(ws) : ws[k].currentJobId = id
    THEN CHOOSE k \in 1..Len(ws) :
            ws[k].currentJobId = id /\ \A m \in 1..(k-1) : ws[m].currentJobId # id
    ELSE 0

FindById(ws, workerId) ==
    IF \E k \in 1..Len(ws) : ws[k].id = workerId
    THEN CHOOSE k \in 1..Len(ws) : ws[k].id = workerId
    ELSE 0

RECURSIVE FilterOut(_, _)
FilterOut(q, id) ==
    IF q = <<>> THEN <<>>
    ELSE IF Head(q) = id THEN FilterOut(Tail(q), id)
         ELSE <<Head(q)>> \o FilterOut(Tail(q), id)

\* The callbacks processQueue hands to addJob, run on the pool as it is at
\* the moment of the call.  onComplete stops at `await db.updateImage(...)`;
\* onError tests the pool at once.  A job that is no item of the provider
\* (status "none") has callbacks that leave the provider alone.
onCallback(P, j, e) ==
    IF P.provider.items[j] = "none" THEN P.provider
    ELSE CASE e.cb = "onStart" -> [P.provider EXCEPT !.items[j] = "processing"]
           [] e.cb = "onComplete" -> [P.provider EXCEPT !.updating = @ \cup {j}]
           [] e.cb = "onError" ->
                [P.provider EXCEPT
                    !.items[j] = "error",
                    !.isProcessing =
                        IF Cardinality(P.activeJobs) = 0 /\ Len(P.queue) = 0 THEN FALSE ELSE @]
           [] OTHER -> P.provider

Call(P, j, e) ==
    [P EXCEPT !.trace[j] = Append(@, e), !.provider = onCallback(P, j, e)]

\* init(): MAX_CONCURRENCY workers with ids 0..MAX_CONCURRENCY-1, each a fresh Worker.
PoolInit(P) ==
    IF P.initialized THEN P
    ELSE [P EXCEPT
            !.workers = [i \in 1..MAX_CONCURRENCY |->
                            [id |-> i - 1, worker |-> i,
                             busy |-> FALSE, currentJobId |-> NoJob]],
            !.ctx = [w \in 1..MAX_CONCURRENCY |-> NewContext],
            !.initialized = TRUE]

\* processNext(), up to its await: the rest runs in ReadResolved / ReadRejected.
ProcessNextLifo(P) ==
    LET k == FindFree(P.workers) IN
    IF k = 0 \/ P.queue = <<>> THEN P
    ELSE LET job == P.queue[Len(P.queue)] IN
         Call([P EXCEPT
                 !.queue = SubSeq(P.queue, 1, Len(P.queue) - 1),
                 !.workers[k].busy = TRUE,
                 !.workers[k].currentJobId = job,
                 !.activeJobs = @ \cup {job},
                 !.reads = @ \cup {[slot |-> k, job |-> job]}],
              job, StartEv)

ProcessNext(P) ==
    LET k == FindFree(P.workers) IN
    IF k = 0 \/ P.queue = <<>> THEN P
    ELSE LET job == Head(P.queue) IN
         Call([P EXCEPT
                 !.queue = Tail(P.queue),
                 !.workers[k].busy = TRUE,
                 !.workers[k].currentJobId = job,
                 !.activeJobs = @ \cup {job},
                 !.reads = @ \cup {[slot |-> k, job |-> job]}],
              job, StartEv)

\* releaseWorker without the call of processNext.
ReleaseWorkerNoDispatch(P, k) ==
    [P EXCEPT !.workers[k].busy = FALSE, !.workers[k].currentJobId = NoJob]

ReleaseWorker(P, k) ==
    ProcessNext([P EXCEPT !.workers[k].busy = FALSE, !.workers[k].currentJobId = NoJob])

AddJobTo(P, job) ==
    LET Q == PoolInit(P) IN
    ProcessNext([Q EXCEPT !.queue = Append(Q.queue, job)])

\* worker.terminate() discards the context together with every message it has
\* posted that the main thread has not dispatched yet; the replacement is a
\* fresh Worker whose onmessage reports under the same wrapper id.
\* Worker instances are named so that the k-th wrapper holds k, then
\* k + MAX_CONCURRENCY, ...: a name is never reused and never shared by wrappers.
ResetWorker(P, k) ==
    LET old == P.workers[k].worker
        new == old + MAX_CONCURRENCY
    IN [P EXCEPT
            !.ctx = [w \in (DOMAIN P.ctx \ {old}) \cup {new} |->
                        IF w = new THEN NewContext ELSE P.ctx[w]],
            !.workers[k].worker = new,
            !.workers[k].busy = FALSE,
            !.workers[k].currentJobId = NoJob]

CancelJobResetFirstBusy(P, id) ==
    LET Q == [P EXCEPT !.queue = FilterOut(P.queue, id)] IN
    IF id \in Q.activeJobs
    THEN LET R == [Q EXCEPT !.activeJobs = @ \ {id}]
             k == IF \E m \in 1..Len(R.workers) : R.workers[m].busy
                  THEN CHOOSE m \in 1..Len(R.workers) :
                          R.workers[m].busy /\ \A n \in 1..(m-1) : ~R.workers[n].busy
                  ELSE 0
         IN IF k # 0 THEN ProcessNext(ResetWorker(R, k)) ELSE R
    ELSE Q

CancelJobNoDispatch(P, id) ==
    LET Q == [P EXCEPT !.queue = FilterOut(P.queue, id)] IN
    IF id \in Q.activeJobs
    THEN LET R == [Q EXCEPT !.activeJobs = @ \ {id}]
             k == FindByJob(R.workers, id)
         IN IF k # 0 THEN ResetWorker(R, k) ELSE R
    ELSE Q

CancelJobIn(P, id) ==
    LET Q == [P EXCEPT !.queue = FilterOut(P.queue, id)] IN
    IF id \in Q.activeJobs
    THEN LET R == [Q EXCEPT !.activeJobs = @ \ {id}]
             k == FindByJob(R.workers, id)
         IN IF k # 0 THEN ProcessNext(ResetWorker(R, k)) ELSE R
    ELSE Q

\* handleMessage(workerId, event)
HandleMessageIn(P, workerId, m) ==
    LET k == FindById(P.workers, workerId) IN
    IF k = 0 THEN P
    ELSE LET jobId == P.workers[k].currentJobId IN
         IF jobId = NoJob THEN P
         ELSE IF jobId \notin P.activeJobs THEN P
         ELSE CASE m.type = "progress" ->
                     Call(P, jobId, Ev("onProgress", <<m.percent>>, m))
                [] m.type = "complete" ->
                     ReleaseWorker(
                        [Call(P, jobId, Ev("onComplete", <<m.src>>, m))
                            EXCEPT !.activeJobs = @ \ {jobId}], k)
                [] m.type = "error" ->
                     ReleaseWorker(
                        [Call(P, jobId, Ev("onError", <<m.message>>, m))
                            EXCEPT !.activeJobs = @ \ {jobId}], k)
                [] OTHER -> P

\* The continuation of processNext after `await job.file.arrayBuffer()`:
\* freeWorker.worker is read now, so the bytes go to whichever Worker the
\* wrapper holds at this moment.
PostProcess(P, r) ==
    LET w == P.workers[r.slot].worker IN
    [P EXCEPT !.reads = @ \ {r},
              !.ctx[w].tasks = @ \cup {[job |-> r.job, sent |-> 0]}]

\* The catch branch of processNext.
ReadFailed(P, r) ==
    ReleaseWorker(
        Call([P EXCEPT !.reads = @ \ {r}], r.job,
             Ev("onError", <<ReadFailedText>>, NoMsg)),
        r.slot)

(***************************************************************************)
(* Actions of SpecPool                                                     *)
(***************************************************************************)
HasCancel(j) == \E i \in 1..Len(trace[j]) : trace[j][i].cb = "cancelJob"

AddJob ==
    /\ nextJob <= MaxJobs
    /\ SetPool(AddJobTo(Pool, nextJob))
    /\ nextJob' = nextJob + 1
    /\ UNCHANGED <<spent, notPool>>

\* cancelJob(id) for a job that is queued or in activeJobs.  For any other id
\* the filter keeps the queue as it is and the `if` is not entered: no field
\* changes and nothing is called.
CancelJob ==
    \E id \in 1..(nextJob - 1) :
        /\ ~HasCancel(id)
        /\ (id \in activeJobs \/ \E i \in 1..Len(queue) : queue[i] = id)
        /\ spent < MaxEvents
        /\ SetPool(Call(CancelJobIn(Pool, id), id, CancelEv))
        /\ spent' = spent + 1
        /\ UNCHANGED <<nextJob, notPool>>

ReadResolved ==
    \E r \in reads :
        /\ SetPool(PostProcess(Pool, r))
        /\ UNCHANGED <<nextJob, spent, notPool>>

ReadRejected ==
    \E r \in reads :
        /\ spent < MaxEvents
        /\ SetPool(ReadFailed(Pool, r))
        /\ spent' = spent + 1
        /\ UNCHANGED <<nextJob, notPool>>

\* config.progress inside handleProcess
WorkerProgress ==
    \E w \in DOMAIN ctx : \E t \in ctx[w].tasks :
        /\ spent < MaxEvents
        /\ ctx' = [ctx EXCEPT
                     ![w].tasks = (@ \ {t}) \cup {[t EXCEPT !.sent = @ + 1]},
                     ![w].out = Append(@, ProgressMsg(t.job, t.sent + 1))]
        /\ spent' = spent + 1
        /\ UNCHANGED <<initialized, workers, queue, activeJobs, reads,
                       nextJob, trace, provider, notPool>>

\* removeBackground resolved
WorkerComplete ==
    \E w \in DOMAIN ctx : \E t \in ctx[w].tasks :
        /\ ctx' = [ctx EXCEPT ![w].tasks = @ \ {t},
                               ![w].out = Append(@, CompleteMsg(t.job))]
        /\ UNCHANGED <<initialized, workers, queue, activeJobs, reads,
                       nextJob, trace, spent, provider, notPool>>

\* removeBackground threw
WorkerError ==
    \E w \in DOMAIN ctx : \E t \in ctx[w].tasks : \E e \in RawErrors :
        /\ spent < MaxEvents
        /\ spent' = spent + 1
        /\ ctx' = [ctx EXCEPT ![w].tasks = @ \ {t},
                               ![w].out = Append(@, ErrorMsg(t.job, e))]
        /\ UNCHANGED <<initialized, workers, queue, activeJobs, reads,
                       nextJob, trace, provider, notPool>>

\* worker.onmessage = (e) => this.handleMessage(i, e): the oldest undelivered
\* message of a live Worker is dispatched on the main thread.
SlotOf(w) == CHOOSE k \in 1..Len(workers) : workers[k].worker = w

HandleMessage ==
    \E w \in DOMAIN ctx :
        /\ ctx[w].out # <<>>
        /\ LET m == Head(ctx[w].out)
               P == [Pool EXCEPT !.ctx[w].out = Tail(@)]
           IN SetPool(HandleMessageIn(P, workers[SlotOf(w)].id, m))
        /\ UNCHANGED <<nextJob, spent, notPool>>

(***************************************************************************)
(* QueueProvider on top of the pool (SpecQueue)                            *)
(***************************************************************************)
MaxSubmits == 2

\* addFiles: the ADD_ITEMS dispatch after the thumbnails and db.saveImage;
\* the uuid of an item is taken from the counter that names jobs.
AddFiles ==
    \E n \in 1..2 :
        /\ nextJob + n - 1 <= MaxJobs
        /\ provider' = [provider EXCEPT
                           !.items = [j \in JobIds |->
                                        IF j \in nextJob..(nextJob + n - 1) THEN "queued" ELSE @[j]]]
        /\ nextJob' = nextJob + n
        /\ UNCHANGED <<initialized, workers, queue, activeJobs, ctx, reads, trace, spent,
                       notPool>>

\* processQueue() without itemIds, called while no db.getImage of an earlier
\* call is pending: every queued or failed item is fetched.
queuedItems(items) == {j \in JobIds : items[j] \in {"queued", "error"}}

processQueue(P) ==
    LET on == [P.provider EXCEPT !.isProcessing = TRUE, !.calls = @ + 1] IN
    IF queuedItems(P.provider.items) = {}
    THEN IF Cardinality(P.activeJobs) = 0 THEN [on EXCEPT !.isProcessing = FALSE] ELSE on
    ELSE [on EXCEPT !.fetching = queuedItems(P.provider.items)]

ProcessQueue ==
    /\ provider.calls < MaxSubmits
    /\ provider.fetching = {}
    /\ provider' = processQueue(Pool)
    /\ UNCHANGED <<initialized, workers, queue, activeJobs, ctx, reads, nextJob, trace,
                   spent, notPool>>

\* db.getImage(item.id).then(record => ...): the item is marked processing
\* and handed to workerPool.addJob.
GetImageResolved ==
    \E j \in provider.fetching :
        /\ SetPool(AddJobTo([Pool EXCEPT !.provider.items[j] = "processing",
                                         !.provider.fetching = @ \ {j}], j))
        /\ UNCHANGED <<nextJob, spent, notPool>>

\* onComplete after `await db.updateImage(...)`.
UpdateImageResolved ==
    \E j \in provider.updating :
        /\ provider' = [provider EXCEPT
                           !.updating = @ \ {j},
                           !.items[j] = "completed",
                           !.isProcessing =
                               IF Cardinality(activeJobs) = 0 /\ Len(queue) = 0 THEN FALSE ELSE @]
        /\ UNCHANGED <<initialized, workers, queue, activeJobs, ctx, reads, nextJob, trace,
                       spent, notPool>>

(***************************************************************************)
(* Reading the per-job record of callbacks                                 *)
(***************************************************************************)
HasStart(j) == \E i \in 1..Len(trace[j]) : trace[j][i].cb = "onStart"

IsTerminal(e) == e.cb \in {"onComplete", "onError"}

HasTerminal(j) == \E i \in 1..Len(trace[j]) : IsTerminal(trace[j][i])

\* cancelJob(j) was called while j had not been given a slot.
CancelledWhileQueued(j) == trace[j] # <<>> /\ trace[j][1].cb = "cancelJob"

\* started and not yet completed, errored or cancelled
InFlight == {j \in JobIds : HasStart(j) /\ ~HasTerminal(j) /\ ~HasCancel(j)}

BoundSlots(j) == {k \in 1..Len(workers) : workers[k].currentJobId = j}

InQueue(j) == \E i \in 1..Len(queue) : queue[i] = j

\* The step is a cancelJob(id) call.
IsCancelOf(id) == trace'[id] = Append(trace[id], CancelEv)

RECURSIVE Callbacks(_)
Callbacks(t) ==
    IF t = <<>> THEN <<>>
    ELSE IF Head(t).cb = "cancelJob" THEN Callbacks(Tail(t))
         ELSE <<Head(t)>> \o Callbacks(Tail(t))

(***************************************************************************)
(* Claims about the WorkerPool (SpecPool)                                  *)
(***************************************************************************)
\* C1: no job is bound to two slots, at most MAX_CONCURRENCY jobs are started
\* and not yet completed, errored or cancelled, and a job waiting in the
\* pending queue has not been started.
C1_ConcurrencyBound ==
    /\ \A j \in JobIds : Cardinality(BoundSlots(j)) <= 1
    /\ Cardinality(InFlight) <= MAX_CONCURRENCY
    /\ \A j \in JobIds : InQueue(j) => ~HasStart(j)

\* C2: every callback that a worker message triggered was invoked on the job
\* whose bytes the context was processing when it produced that message.
C2_NoMisattribution ==
    \A j \in JobIds : \A i \in 1..Len(trace[j]) :
        trace[j][i].msg.type # "none" => trace[j][i].msg.src = j

\* C3: once cancelJob(j) has returned, no callback of j is invoked any more.
C3_NoCallbackAfterCancel ==
    \A j \in JobIds : \A i \in 1..Len(trace[j]) :
        trace[j][i].cb = "cancelJob" => i = Len(trace[j])

\* C4: cancelJob of a job bound to a slot terminates that slot's Worker and
\* installs a fresh one, leaves the slot idle when nothing is queued and
\* otherwise starts the head of the queue within the same call; cancelJob of a
\* job that is only queued removes it from the queue, resets no slot, and the
\* job is never started.
C4_CancelResetsAndDispatches ==
    /\ [][\A id \in JobIds : IsCancelOf(id) =>
            LET k == FindByJob(workers, id) IN
            IF k # 0
            THEN /\ workers[k].worker \notin DOMAIN ctx'
                 /\ workers'[k].worker \notin DOMAIN ctx
                 /\ workers'[k].worker \in DOMAIN ctx'
                 /\ ctx'[workers'[k].worker] = NewContext
                 /\ IF queue = <<>>
                    THEN ~workers'[k].busy /\ workers'[k].currentJobId = NoJob
                    ELSE /\ queue' = Tail(queue)
                         /\ trace'[Head(queue)] = Append(trace[Head(queue)], StartEv)
                         /\ \E s \in 1..Len(workers) :
                               workers'[s].busy /\ workers'[s].currentJobId = Head(queue)
            ELSE InQueue(id) =>
                 /\ queue' = FilterOut(queue, id)
                 /\ workers' = workers
                 /\ ctx' = ctx
                 /\ \A j \in JobIds \ {id} : trace'[j] = trace[j]
         ]_vars
    /\ [](\A j \in JobIds : CancelledWhileQueued(j) => ~HasStart(j) /\ ~InQueue(j))

C4_Witness ==
    /\ trace[4] = <<CancelEv>>
    /\ trace[1] = <<StartEv, CancelEv>>
    /\ trace[3] = <<StartEv>>
    /\ workers[1].currentJobId = 3
    /\ workers[1].worker > MAX_CONCURRENCY

\* C5: a cancelJob(A) call leaves every other slot that is bound to a job B
\* exactly as it was: the wrapper, its Worker with the work and the undelivered
\* messages it holds, B's pending file read, B's activeJobs entry, and B's
\* callbacks (none is invoked by the cancel).
C5_CancelLeavesOthers ==
    [][\A id \in JobIds : IsCancelOf(id) =>
          \A k \in 1..Len(workers) :
             LET b == workers[k].currentJobId IN
             (b # NoJob /\ b # id) =>
                /\ workers'[k] = workers[k]
                /\ workers[k].worker \in DOMAIN ctx'
                /\ ctx'[workers[k].worker] = ctx[workers[k].worker]
                /\ (b \in activeJobs <=> b \in activeJobs')
                /\ trace'[b] = trace[b]
                /\ \A r \in reads : r.job = b => r \in reads'
      ]_vars

C5_Witness ==
    /\ trace[1] = <<StartEv, CancelEv>>
    /\ workers[2].currentJobId = 2
    /\ 2 \in activeJobs
    /\ ctx[workers[2].worker].tasks # {}
    /\ workers[2].worker = 2

\* C6: the callbacks of a job are onStart once and first, then onProgress any
\* number of times, then at most one of onComplete/onError and nothing after
\* it; a job that got its terminal callback holds no slot, and no slot is idle
\* while a job waits in the queue.
C6_CallbackProtocol ==
    \A j \in JobIds :
        LET cbs == Callbacks(trace[j]) IN
        /\ cbs # <<>> => cbs[1].cb = "onStart"
        /\ \A i \in 2..Len(cbs) : cbs[i].cb # "onStart"
        /\ \A i \in 1..(Len(cbs) - 1) : ~IsTerminal(cbs[i])
        /\ HasTerminal(j) => BoundSlots(j) = {}
        /\ HasTerminal(j) /\ queue # <<>> => FindFree(workers) = 0

\* C7: jobs are started in addJob order (ids are handed out in addJob order):
\* when b has been started, every job added before b has been started too,
\* unless it was cancelled while it was still queued.
C7_FifoAdmission ==
    \A a \in JobIds : \A b \in JobIds :
        (a < b /\ HasStart(b) /\ ~CancelledWhileQueued(a)) => HasStart(a)

C7_Witness ==
    /\ HasStart(3)
    /\ queue = <<4>>
    /\ \A j \in JobIds : ~HasCancel(j)

\* C8: a job that completed, errored or was cancelled is neither queued nor
\* in activeJobs, and getActiveCount() equals the number of slots bound to a job.
GetActiveCount == Cardinality(activeJobs)

GetQueueLength == Len(queue)

\* C25: after every pool operation no slot is idle while a job is pending,
\* and every job handed to addJob is eventually started (onStart) unless it
\* is cancelled.  Having been added, started and cancelled are all permanent,
\* so "added leads to started or cancelled" is the same as "again and again,
\* a job that was added has been started or cancelled".
IdleSlot == \E k \in 1..Len(workers) : ~workers[k].busy

C25_NoQueuedJobStarved ==
    /\ [](queue # <<>> => (initialized /\ ~IdleSlot))
    /\ \A j \in JobIds : []<>(j < nextJob => (HasStart(j) \/ HasCancel(j)))

\* Jobs 1 and 2 took the two slots, job 3 waited and was started when job 1
\* completed; job 4 now waits while both slots are busy.
C25_Witness ==
    /\ HasStart(3) /\ ~HasCancel(3)
    /\ \E i \in 1..Len(trace[1]) : trace[1][i].cb = "onComplete"
    /\ queue = <<4>> /\ ~IdleSlot
    /\ \A j \in JobIds : ~HasCancel(j)

\* C26: once processQueue has submitted items and every item of the provider
\* is completed or failed, with no promise of the provider pending and the
\* pool holding no active and no queued job, isProcessing is false.  In such
\* a state no callback is left that could still clear the flag.
C26_ProcessingFlagCleared ==
    (/\ provider.calls > 0
     /\ \E j \in JobIds : provider.items[j] # "none"
     /\ \A j \in JobIds : provider.items[j] \in {"none", "completed", "error"}
     /\ provider.fetching = {} /\ provider.updating = {}
     /\ GetActiveCount = 0 /\ GetQueueLength = 0)
        => ~provider.isProcessing

C8_PoolHoldsOnlyLiveJobs ==
    /\ \A j \in JobIds :
          (HasTerminal(j) \/ HasCancel(j)) => j \notin activeJobs /\ ~InQueue(j)
    /\ GetActiveCount =
          Cardinality({k \in 1..Len(workers) : workers[k].currentJobId # NoJob})

\* C9: every onError call made for a worker's 'error' message receives a
\* message and a retryable flag, the flag is the one the worker put into the
\* message, and the worker's flag is false exactly for WASM/WebAssembly failures.
C9_ErrorCarriesRetryable ==
    /\ \A w \in DOMAIN ctx : \A i \in 1..Len(ctx[w].out) :
          LET m == ctx[w].out[i] IN
          m.type = "error" =>
              (m.retryable <=> m.message.prefix = "Failed to process image: ")
    /\ \A j \in JobIds : \A i \in 1..Len(trace[j]) :
          LET e == trace[j][i] IN
          (e.cb = "onError" /\ e.msg.type = "error") =>
              /\ Len(e.args) = 2
              /\ e.args[2] = e.msg.retryable

(***************************************************************************)
(* EditorState and CommandHistory                                          *)
(***************************************************************************)
maxHistory == 50

\* Bound on the number of execute() calls of a run.
MaxCommands == 3

EffectIds == {"e1", "e2"}

\* Abstract values of a params record / a TransformMatrix; 0 is the default.
ParamVals == {0, 1}

Null == [id |-> "null", type |-> "null", params |-> 0, enabled |-> FALSE]

\* createDefaultEditorState: three layers, no effects.  The fields that
\* applyCommand copies through `...state` untouched are kept as one field.
DefaultEditorState ==
    [rest |-> "remove-only",
     layers |-> << [id |-> "bg", type |-> "background", visible |-> TRUE, params |-> 0, transform |-> 0],
                   [id |-> "border", type |-> "border", visible |-> FALSE, params |-> 0, transform |-> 0],
                   [id |-> "subject", type |-> "subject", visible |-> TRUE, params |-> 0, transform |-> 0] >>,
     effects |-> <<>>]

\* Date.now() at the n-th createCommand of a run; commands are created one at
\* a time, right before they are executed.
Now == executed + 1

\* createCommand
CreateCommand(type, targetId, prevValue, newValue) ==
    [type |-> type, timestamp |-> Now,
     payload |-> [targetId |-> targetId, prevValue |-> prevValue, newValue |-> newValue]]

RECURSIVE FilterEffects(_, _)
FilterEffects(es, targetId) ==
    IF es = <<>> THEN <<>>
    ELSE IF Head(es).id = targetId THEN FilterEffects(Tail(es), targetId)
         ELSE <<Head(es)>> \o FilterEffects(Tail(es), targetId)

applyCommand(state, command, reverse) ==
    LET value == IF reverse THEN command.payload.prevValue ELSE command.payload.newValue
        targetId == command.payload.targetId
    IN CASE command.type = "SET_EFFECT" ->
              [state EXCEPT !.effects = [i \in 1..Len(@) |->
                  IF @[i].id = targetId THEN [@[i] EXCEPT !.params = value] ELSE @[i]]]
         [] command.type = "ADD_EFFECT" ->
              IF reverse
              THEN [state EXCEPT !.effects = FilterEffects(@, targetId)]
              ELSE [state EXCEPT !.effects = Append(@, value)]
         [] command.type = "REMOVE_EFFECT" ->
              IF reverse
              THEN [state EXCEPT !.effects = Append(@, value)]
              ELSE [state EXCEPT !.effects = FilterEffects(@, targetId)]
         [] command.type = "TOGGLE_EFFECT" ->
              [state EXCEPT !.effects = [i \in 1..Len(@) |->
                  IF @[i].id = targetId THEN [@[i] EXCEPT !.enabled = value] ELSE @[i]]]
         [] command.type = "SET_LAYER" ->
              [state EXCEPT !.layers = [i \in 1..Len(@) |->
                  IF @[i].id = targetId THEN [@[i] EXCEPT !.params = value] ELSE @[i]]]
         [] command.type = "TOGGLE_LAYER" ->
              [state EXCEPT !.layers = [i \in 1..Len(@) |->
                  IF @[i].id = targetId THEN [@[i] EXCEPT !.visible = value] ELSE @[i]]]
         [] command.type = "SET_TRANSFORM" ->
              [state EXCEPT !.layers = [i \in 1..Len(@) |->
                  IF @[i].id = targetId THEN [@[i] EXCEPT !.transform = value] ELSE @[i]]]
         [] OTHER -> state

\* The history together with the state its apply function replaces.
History == [commands |-> commands, currentIndex |-> currentIndex, editor |-> editor]

SetHistory(H) ==
    /\ commands' = H.commands
    /\ currentIndex' = H.currentIndex
    /\ editor' = H.editor

\* commands[i] of the code (0-based)
At(cs, i) == cs[i + 1]

canUndo(H) == H.currentIndex >= 0

canRedo(H) == H.currentIndex < Len(H.commands) - 1

executeKeepsRedo(H, command) ==
    LET pushed == Append(H.commands, command)
        trim == Len(pushed) > maxHistory
    IN [commands |-> IF trim THEN Tail(pushed) ELSE pushed,
        currentIndex |-> IF trim THEN H.currentIndex + 1 - 1 ELSE H.currentIndex + 1,
        editor |-> applyCommand(H.editor, command, FALSE)]

executeKeepsCursor(H, command) ==
    LET kept == IF H.currentIndex < Len(H.commands) - 1
                THEN SubSeq(H.commands, 1, H.currentIndex + 1)
                ELSE H.commands
        pushed == Append(kept, command)
        trim == Len(pushed) > maxHistory
    IN [commands |-> IF trim THEN Tail(pushed) ELSE pushed,
        currentIndex |-> H.currentIndex + 1,
        editor |-> applyCommand(H.editor, command, FALSE)]

execute(H, command) ==
    LET kept == IF H.currentIndex < Len(H.commands) - 1
                THEN SubSeq(H.commands, 1, H.currentIndex + 1)
                ELSE H.commands
        pushed == Append(kept, command)
        trim == Len(pushed) > maxHistory
    IN [commands |-> IF trim THEN Tail(pushed) ELSE pushed,
        currentIndex |-> IF trim THEN H.currentIndex + 1 - 1 ELSE H.currentIndex + 1,
        editor |-> applyCommand(H.editor, command, FALSE)]

undo(H) ==
    IF ~canUndo(H) THEN H
    ELSE [H EXCEPT !.editor = applyCommand(H.editor, At(H.commands, H.currentIndex), TRUE),
                   !.currentIndex = @ - 1]

redo(H) ==
    IF ~canRedo(H) THEN H
    ELSE [H EXCEPT !.editor = applyCommand(H.editor, At(H.commands, H.currentIndex + 1), FALSE),
                   !.currentIndex = @ + 1]

clear(H) == [H EXCEPT !.commands = <<>>, !.currentIndex = -1]

(***************************************************************************)
(* Actions of SpecHistory                                                  *)
(***************************************************************************)
EffectIndex(id) ==
    IF \E i \in 1..Len(editor.effects) : editor.effects[i].id = id
    THEN CHOOSE i \in 1..Len(editor.effects) : editor.effects[i].id = id
    ELSE 0

LayerIndex(id) == CHOOSE i \in 1..Len(editor.layers) : editor.layers[i].id = id

\* An id never used before (uuidv4): in no effect and in no logged command.
FreshEffectId(id) ==
    /\ EffectIndex(id) = 0
    /\ \A i \in 1..Len(commands) : commands[i].payload.targetId # id

\* The commands a caller can record in the current state: prevValue is the
\* value the target holds now, newValue the value it is given.
CommandsNow ==
    {CreateCommand("SET_EFFECT", id, editor.effects[EffectIndex(id)].params, p) :
        id \in {x \in EffectIds : EffectIndex(x) # 0}, p \in ParamVals}
    \cup {CreateCommand("ADD_EFFECT", id, Null,
                        [id |-> id, type |-> "blur", params |-> p, enabled |-> TRUE]) :
        id \in {x \in EffectIds : FreshEffectId(x)}, p \in {0}}
    \cup {CreateCommand("REMOVE_EFFECT", id, editor.effects[EffectIndex(id)], Null) :
        id \in {x \in EffectIds : EffectIndex(x) # 0}}
    \cup {CreateCommand("TOGGLE_EFFECT", id, editor.effects[EffectIndex(id)].enabled,
                        ~editor.effects[EffectIndex(id)].enabled) :
        id \in {x \in EffectIds : EffectIndex(x) # 0}}
    \cup {CreateCommand("SET_LAYER", id, editor.layers[LayerIndex(id)].params, p) :
        id \in {"bg"}, p \in ParamVals}
    \cup {CreateCommand("TOGGLE_LAYER", id, editor.layers[LayerIndex(id)].visible,
                        ~editor.layers[LayerIndex(id)].visible) :
        id \in {"border"}}
    \cup {CreateCommand("SET_TRANSFORM", id, editor.layers[LayerIndex(id)].transform, t) :
        id \in {"subject"}, t \in ParamVals}
    \cup {CreateCommand(ty, "bg", 0, 1) : ty \in {"ADD_LAYER", "REMOVE_LAYER", "SET_BACKGROUND"}}

\* The timestamps of the commands that redo() could still apply.
Redoable(H) == {H.commands[i].timestamp : i \in (H.currentIndex + 2)..Len(H.commands)}

NoCall == [stamp |-> 0, dropped |-> 0, discarded |-> {}]

Execute ==
    \E c \in CommandsNow :
        /\ executed < MaxCommands
        /\ SetHistory(execute(History, c))
        /\ executed' = executed + 1
        /\ calls' = [stamp |-> c.timestamp,
                     dropped |-> Cardinality(Redoable(History)),
                     discarded |-> calls.discarded \cup Redoable(History)]
        /\ UNCHANGED notHist

Undo ==
    /\ SetHistory(undo(History))
    /\ calls' = [calls EXCEPT !.stamp = 0, !.dropped = 0]
    /\ UNCHANGED <<executed, notHist>>

Redo ==
    /\ SetHistory(redo(History))
    /\ calls' = [calls EXCEPT !.stamp = 0, !.dropped = 0]
    /\ UNCHANGED <<executed, notHist>>

Clear ==
    /\ SetHistory(clear(History))
    /\ calls' = [calls EXCEPT !.stamp = 0, !.dropped = 0]
    /\ UNCHANGED <<executed, notHist>>

(***************************************************************************)
(* Claims about the CommandHistory (SpecHistory)                           *)
(***************************************************************************)
\* C10: in every state the history can reach with canUndo(), undo() followed
\* at once by redo() gives back the EditorState, the cursor and the log.
C10_UndoRedoRestores ==
    canUndo(History) =>
        /\ redo(undo(History)).editor = editor
        /\ redo(undo(History)).currentIndex = currentIndex
        /\ redo(undo(History)).commands = commands

\* C11: right after execute() nothing is redoable and the executed command is
\* the last entry of the log; and at all times no command that an execute()
\* cut off the redo branch is in the log, so redo() has none to apply again.
C11_ExecuteDiscardsRedo ==
    /\ calls.stamp # 0 =>
          /\ ~canRedo(History)
          /\ commands # <<>>
          /\ commands[Len(commands)].timestamp = calls.stamp
    /\ \A i \in 1..Len(commands) : commands[i].timestamp \notin calls.discarded

\* C11 witness: the latest call was an execute() made after two undos, and it
\* cut two commands off the log.
C11_Witness ==
    /\ calls.stamp # 0
    /\ calls.dropped = 2
    /\ Len(commands) = 1

Stamps(cs) == [i \in 1..Len(cs) |-> cs[i].timestamp]

\* The step is an execute() call.
IsExecute == executed' = executed + 1

C12_Bounds ==
    /\ Len(commands) <= maxHistory
    /\ -1 <= currentIndex
    /\ currentIndex <= Len(commands) - 1
    /\ calls.stamp # 0 =>
          /\ canUndo(History)
          /\ At(commands, currentIndex).timestamp = calls.stamp
          /\ undo(History).editor =
                applyCommand(editor, At(commands, currentIndex), TRUE)

C28_ExecuteUndoRestores ==
    [][IsExecute =>
          undo([commands |-> commands', currentIndex |-> currentIndex',
                editor |-> editor']).editor = editor]_vars

(***************************************************************************)
(* RenderEngine                                                            *)
(***************************************************************************)
\* Normalised params (fractions of the canvas, 0-1 values) are held in
\* thousandths; a length computed from one is held in thousandths of a pixel.
Unit == 1000

\* Bound on the render() calls of a run.
MaxRenders == 2

\* Bound on the length of state.effects.
MaxEffects == 2

Min(a, b) == IF a <= b THEN a ELSE b

Max(a, b) == IF a >= b THEN a ELSE b

\* Math.round(n / d) for d > 0: halves go up.
Round(n, d) == (2 * n + d) \div (2 * d)

DEFAULT_TRANSFORM == [scaleX |-> 1000, scaleY |-> 1000, rotation |-> 0, translateX |-> 0, translateY |-> 0]

\* ImageBitmap sizes <<width, height>> of the source image.
Bitmaps == {<<1000, 333>>, <<1000, 19>>, <<450, 600>>}

EffectChoices ==
    {[type |-> "shadow", enabled |-> en,
      params |-> [offsetX |-> 20, offsetY |-> 20, blur |-> 20, opacity |-> 400]] : en \in BOOLEAN}
    \cup {[type |-> "blur", enabled |-> en, params |-> [radius |-> 30]] : en \in BOOLEAN}

EffectLists == UNION {[1..n -> EffectChoices] : n \in 0..MaxEffects}

\* createDefaultEditorState's three layers with their visibility toggled, the
\* border layer given params and the subject moved; effects as a mode's chain
\* or addEffect leave them.
SceneStates ==
    {[previewQuality |-> 800,
      layers |-> << [id |-> "bg", type |-> "background", visible |-> v[1],
                     transform |-> DEFAULT_TRANSFORM, params |-> [opacity |-> 1000]],
                    [id |-> "border", type |-> "border", visible |-> v[2],
                     transform |-> DEFAULT_TRANSFORM,
                     params |-> [thickness |-> 20, radius |-> 10, padding |-> 25]],
                    [id |-> "subject", type |-> "subject", visible |-> v[3],
                     transform |-> [DEFAULT_TRANSFORM EXCEPT !.translateX = 50, !.translateY = 125],
                     params |-> [opacity |-> 1000]] >>,
      effects |-> es] : v \in [1..3 -> BOOLEAN], es \in EffectLists}

\* document.createElement('canvas'): 300 x 150, empty, untransformed.
NewCanvas == [width |-> 300, height |-> 150, surface |-> <<>>, tf |-> <<>>, stack |-> <<>>]

\* The engine and its calls as one value, so that the methods compose.
Engine == [canvas |-> canvas, renders |-> renders, microtasks |-> microtasks]

SetEngine(R) ==
    /\ canvas' = R.canvas
    /\ renders' = R.renders
    /\ microtasks' = R.microtasks

\* One drawing operation on the canvas, made by call c.  A layer is painted
\* under the context's current transform; getImageData / putImageData and
\* StackBlur, which the effects use, ignore it.  The call keeps its own list of
\* what it drew, with the transform it asked for itself (the three operations
\* of renderLayer).
Draw(R, c, op, geom) ==
    LET stage == R.renders[c].log[Len(R.renders[c].log)]
        tf == R.canvas.tf
        mark == [by |-> c, kind |-> stage.kind, idx |-> stage.idx, op |-> op, geom |-> geom,
                 tf |-> IF stage.kind = "layer" THEN tf ELSE <<>>]
    IN [R EXCEPT !.canvas.surface = Append(@, mark),
                 !.renders[c].drawn =
                    Append(@, [mark EXCEPT !.tf = IF stage.kind = "layer"
                                                  THEN SubSeq(tf, Len(tf) - 2, Len(tf))
                                                  ELSE <<>>])]

Stage(R, c, ev, kind, idx) ==
    [R EXCEPT !.renders[c].log = Append(@, [ev |-> ev, kind |-> kind, idx |-> idx])]

renderBackground(R, c, params, width, height) ==
    Draw(R, c, "fillRect", <<0, 0, width * Unit, height * Unit>>)

renderBorderBySourceSize(R, c, params, width, height) ==
    LET source == Min(R.renders[c].bitmap[1], R.renders[c].bitmap[2])
        thickness == params.thickness * source
        radius == params.radius * source
        padding == params.padding * source
    IN Draw(R, c, "strokeRoundRect",
            <<padding, padding, width * Unit - padding * 2, height * Unit - padding * 2,
              radius, thickness>>)

renderBorder(R, c, params, width, height) ==
    LET thickness == params.thickness * Min(width, height)
        radius == params.radius * Min(width, height)
        padding == params.padding * Min(width, height)
    IN Draw(R, c, "strokeRoundRect",
            <<padding, padding, width * Unit - padding * 2, height * Unit - padding * 2,
              radius, thickness>>)

renderSubject(R, c, width, height) ==
    Draw(R, c, "drawImage", <<0, 0, width * Unit, height * Unit>>)

\* renderLayer up to the point where it returns or suspends: save, transform,
\* paint; a subject layer suspends at `await this.renderSubject(...)` before
\* ctx.restore(), every other layer restores and returns at once, which
\* suspends render at `await this.renderLayer(...)`.  Either promise is
\* resolved already, so the continuation is queued as a microtask.
renderLayer(R, c, i) ==
    LET call == R.renders[c]
        layer == call.state.layers[i]
        t == layer.transform
        saved == [R EXCEPT !.canvas.stack = Append(@, R.canvas.tf)]
        moved == [saved EXCEPT !.canvas.tf =
                     @ \o << <<"translate", call.width * t.translateX, call.height * t.translateY>>,
                             <<"rotate", t.rotation, 0>>,
                             <<"scale", t.scaleX, t.scaleY>> >>]
        begun == Stage(moved, c, "begin", "layer", i)
        painted == CASE layer.type = "background" ->
                          renderBackground(begun, c, layer.params, call.width, call.height)
                     [] layer.type = "border" ->
                          renderBorder(begun, c, layer.params, call.width, call.height)
                     [] layer.type = "subject" ->
                          renderSubject(begun, c, call.width, call.height)
                     [] OTHER -> begun
    IN IF layer.type = "subject"
       THEN [painted EXCEPT !.renders[c].pc = "restore", !.renders[c].i = i,
                            !.microtasks = Append(@, c)]
       ELSE [Stage(painted, c, "end", "layer", i) EXCEPT
                !.canvas.tf = IF painted.canvas.stack = <<>> THEN @
                              ELSE painted.canvas.stack[Len(painted.canvas.stack)],
                !.canvas.stack = IF @ = <<>> THEN @ ELSE SubSeq(@, 1, Len(@) - 1),
                !.renders[c].pc = "layers",
                !.renders[c].i = i + 1,
                !.microtasks = Append(@, c)]

applyShadow(R, c, params, width, height) ==
    Draw(R, c, "shadow",
         <<params.blur * Min(width, height), params.offsetX * width, params.offsetY * height>>)

applyBlur(R, c, params, width, height) ==
    LET radius == Round(params.radius * Min(width, height), Unit) IN
    IF radius <= 0 THEN R ELSE Draw(R, c, "blur", <<radius>>)

applyEffect(R, c, j) ==
    LET call == R.renders[c]
        effect == call.state.effects[j]
        begun == Stage(R, c, "begin", "effect", j)
        done == CASE effect.type = "shadow" ->
                       applyShadow(begun, c, effect.params, call.width, call.height)
                  [] effect.type = "blur" ->
                       applyBlur(begun, c, effect.params, call.width, call.height)
                  [] OTHER -> begun
    IN Stage(done, c, "end", "effect", j)

RECURSIVE applyEffectsFrom(_, _, _)
applyEffectsFrom(R, c, j) ==
    IF j > Len(R.renders[c].state.effects) THEN R
    ELSE IF ~R.renders[c].state.effects[j].enabled THEN applyEffectsFrom(R, c, j + 1)
    ELSE applyEffectsFrom(applyEffect(R, c, j), c, j + 1)

\* exportToBlob: toBlob takes its copy of the bitmap when it is called.
exportToBlob(R, c) ==
    [R EXCEPT !.renders[c].pc = "encode",
              !.renders[c].blob = [width |-> R.canvas.width, height |-> R.canvas.height,
                                   surface |-> R.canvas.surface]]

RECURSIVE effectsBeforeLayersFrom(_, _, _)
effectsBeforeLayersFrom(R, c, i) ==
    IF R.renders[c].log = <<>> /\ i = 1
    THEN LET E == applyEffectsFrom(R, c, 1) IN
         IF \E k \in 1..Len(E.renders[c].state.layers) : E.renders[c].state.layers[k].visible
         THEN renderLayer(E, c, CHOOSE k \in 1..Len(E.renders[c].state.layers) :
                 /\ E.renders[c].state.layers[k].visible
                 /\ \A m \in 1..(k - 1) : ~E.renders[c].state.layers[m].visible)
         ELSE exportToBlob(E, c)
    ELSE IF i > Len(R.renders[c].state.layers) THEN exportToBlob(R, c)
    ELSE IF ~R.renders[c].state.layers[i].visible THEN effectsBeforeLayersFrom(R, c, i + 1)
    ELSE renderLayer(R, c, i)

\* The two loops of render() from layer i on, up to the next suspension.
RECURSIVE renderFrom(_, _, _)
renderFrom(R, c, i) ==
    IF i > Len(R.renders[c].state.layers)
    THEN exportToBlob(applyEffectsFrom(R, c, 1), c)
    ELSE IF ~R.renders[c].state.layers[i].visible THEN renderFrom(R, c, i + 1)
    ELSE renderLayer(R, c, i)

\* scale as a fraction <<numerator, denominator>>
Scale(quality, state, bitmap) ==
    IF quality = "preview" /\ state.previewQuality < Max(bitmap[1], bitmap[2])
    THEN <<state.previewQuality, Max(bitmap[1], bitmap[2])>>
    ELSE <<1, 1>>

\* render(state, originalImage, alphaMask, options) up to its first suspension.
\* Assigning canvas.width / height resets the bitmap and the context state.
render(R, state, bitmap, quality) ==
    LET c == Len(R.renders) + 1
        scale == Scale(quality, state, bitmap)
        width == Round(bitmap[1] * scale[1], scale[2])
        height == Round(bitmap[2] * scale[1], scale[2])
        started == [R EXCEPT
            !.renders = Append(@, [state |-> state, bitmap |-> bitmap, quality |-> quality,
                                   scale |-> scale, width |-> width, height |-> height,
                                   pc |-> "layers", i |-> 1, log |-> <<>>, drawn |-> <<>>,
                                   blob |-> [width |-> 0, height |-> 0, surface |-> <<>>]]),
            !.canvas = [NewCanvas EXCEPT !.width = width, !.height = height]]
    IN renderFrom(started, c, 1)

\* The continuation of renderLayer after `await this.renderSubject(...)`.
restoreLayer(R, c) ==
    [Stage(R, c, "end", "layer", R.renders[c].i) EXCEPT
        !.canvas.tf = IF R.canvas.stack = <<>> THEN @ ELSE R.canvas.stack[Len(R.canvas.stack)],
        !.canvas.stack = IF @ = <<>> THEN @ ELSE SubSeq(@, 1, Len(@) - 1),
        !.renders[c].pc = "layers",
        !.renders[c].i = @ + 1,
        !.microtasks = Append(@, c)]

(***************************************************************************)
(* Actions of SpecRender                                                   *)
(***************************************************************************)
RenderCall ==
    \E quality \in {"preview", "export"} :
        /\ Len(renders) < MaxRenders
        /\ SetEngine(render(Engine, scene.state, scene.bitmap, quality))
        /\ UNCHANGED <<scene, notRender>>

\* The oldest microtask runs: renderLayer resumes after the subject was drawn.
RenderRestore ==
    /\ microtasks # <<>>
    /\ renders[Head(microtasks)].pc = "restore"
    /\ SetEngine(restoreLayer([Engine EXCEPT !.microtasks = Tail(@)], Head(microtasks)))
    /\ UNCHANGED <<scene, notRender>>

\* The oldest microtask runs: render resumes after `await this.renderLayer(...)`.
RenderResume ==
    /\ microtasks # <<>>
    /\ renders[Head(microtasks)].pc = "layers"
    /\ SetEngine(renderFrom([Engine EXCEPT !.microtasks = Tail(@)], Head(microtasks),
                            renders[Head(microtasks)].i))
    /\ UNCHANGED <<scene, notRender>>

\* The toBlob callback, a task of its own, resolves the promise render() returned.
RenderEncoded ==
    \E c \in 1..Len(renders) :
        /\ microtasks = <<>>
        /\ renders[c].pc = "encode"
        /\ renders' = [renders EXCEPT ![c].pc = "done"]
        /\ UNCHANGED <<canvas, microtasks, scene, notRender>>

(***************************************************************************)
(* Claims about the RenderEngine (SpecRender)                              *)
(***************************************************************************)
\* The stages call c has started, in the order it started them.
Begun(c) == SelectSeq(renders[c].log, LAMBDA e : e.ev = "begin")

VisibleLayers(c) == {i \in 1..Len(renders[c].state.layers) : renders[c].state.layers[i].visible}

EnabledEffects(c) == {j \in 1..Len(renders[c].state.effects) : renders[c].state.effects[j].enabled}

\* C13: in every render() call the stages run one at a time (each stage ends
\* before the next begins), the painted layers are visible ones in ascending
\* array index, the applied effects are enabled ones in ascending array index,
\* no effect begins before every visible layer has ended, and a call that has
\* reached encoding has painted every visible layer and applied every enabled
\* effect exactly once.
C13_LayersThenEffectsInOrder ==
    \A c \in 1..Len(renders) :
        LET log == renders[c].log
            b == Begun(c)
        IN /\ \A n \in 1..Len(log) :
                 /\ log[n].ev = (IF n % 2 = 1 THEN "begin" ELSE "end")
                 /\ (n % 2 = 0) => (log[n].kind = log[n - 1].kind /\ log[n].idx = log[n - 1].idx)
           /\ \A n \in 1..Len(b) :
                 /\ b[n].kind = "layer" => b[n].idx \in VisibleLayers(c)
                 /\ b[n].kind = "effect" => b[n].idx \in EnabledEffects(c)
           /\ \A n \in 1..Len(b) : \A m \in (n + 1)..Len(b) :
                 /\ b[n].kind = "effect" => b[m].kind = "effect"
                 /\ b[n].kind = b[m].kind => b[n].idx < b[m].idx
           /\ (\E n \in 1..Len(b) : b[n].kind = "effect") =>
                 \A i \in VisibleLayers(c) : \E n \in 1..Len(log) :
                     log[n] = [ev |-> "end", kind |-> "layer", idx |-> i]
           /\ renders[c].pc \in {"encode", "done"} =>
                 /\ {b[n].idx : n \in {k \in 1..Len(b) : b[k].kind = "layer"}} = VisibleLayers(c)
                 /\ {b[n].idx : n \in {k \in 1..Len(b) : b[k].kind = "effect"}} = EnabledEffects(c)
                 /\ Len(log) = 2 * Len(b)

\* C13 witness: a finished call on a state with an invisible layer between two
\* visible ones and a disabled effect before an enabled one, made while another
\* call was in progress.
C13_Witness ==
    \E c \in 1..Len(renders) :
        /\ renders[c].pc = "done"
        /\ VisibleLayers(c) = {1, 3}
        /\ EnabledEffects(c) = {2}
        /\ Len(renders[c].log) = 6
        /\ \E d \in 1..Len(renders) : d # c /\ renders[d].pc \in {"restore", "layers"}

Abs(x) == IF x < 0 THEN -x ELSE x

\* What call c drew, without the blur marks.
Drawn(c) == SelectSeq(renders[c].drawn, LAMBDA m : m.op # "blur")

\* The radius call c blurred with for effect j, 0 when applyBlur returned early.
BlurRadius(c, j) ==
    IF \E n \in 1..Len(renders[c].drawn) :
          renders[c].drawn[n].op = "blur" /\ renders[c].drawn[n].idx = j
    THEN (CHOOSE m \in {renders[c].drawn[n] : n \in 1..Len(renders[c].drawn)} :
             m.op = "blur" /\ m.idx = j).geom[1]
    ELSE 0

MinSide(c) == Min(renders[c].width, renders[c].height)

\* a / MinSide(p) = b / MinSide(e), and likewise for widths and heights
SameOfMin(p, e, a, b) == a * MinSide(e) = b * MinSide(p)

SameOfWidth(p, e, a, b) == a * renders[e].width = b * renders[p].width

SameOfHeight(p, e, a, b) == a * renders[e].height = b * renders[p].height

\* C19: a preview call never upscales and its longer side is
\* min(previewQuality, longer side of the source), an export call has the
\* source's size; and for a preview call p and an export call e of the same
\* state and bitmap that have both painted everything, the two drew the same
\* operations in the same order with border inset, corner radius and stroke
\* width at the same fraction of min(width, height), shadow blur at the same
\* fraction of min(width, height), shadow offsets and layer translations at the
\* same fractions of width and height, and blur radii whose fractions of
\* min(width, height) differ by at most the two half-pixel roundings.
C19_PreviewMatchesExport ==
    /\ \A c \in 1..Len(renders) :
          IF renders[c].quality = "export"
          THEN renders[c].width = renders[c].bitmap[1] /\ renders[c].height = renders[c].bitmap[2]
          ELSE /\ renders[c].width <= renders[c].bitmap[1]
               /\ renders[c].height <= renders[c].bitmap[2]
               /\ Max(renders[c].width, renders[c].height) =
                     Min(renders[c].state.previewQuality,
                         Max(renders[c].bitmap[1], renders[c].bitmap[2]))
    /\ \A p \in 1..Len(renders) : \A e \in 1..Len(renders) :
          (/\ renders[p].quality = "preview" /\ renders[e].quality = "export"
           /\ renders[p].pc \in {"encode", "done"} /\ renders[e].pc \in {"encode", "done"}) =>
             /\ Len(Drawn(p)) = Len(Drawn(e))
             /\ \A n \in 1..Len(Drawn(p)) :
                   LET a == Drawn(p)[n]
                       b == Drawn(e)[n]
                   IN /\ a.op = b.op /\ a.kind = b.kind /\ a.idx = b.idx
                      /\ Len(a.tf) = Len(b.tf)
                      /\ \A k \in 1..Len(a.tf) :
                            /\ a.tf[k][1] = b.tf[k][1]
                            /\ IF a.tf[k][1] = "translate"
                               THEN /\ SameOfWidth(p, e, a.tf[k][2], b.tf[k][2])
                                    /\ SameOfHeight(p, e, a.tf[k][3], b.tf[k][3])
                               ELSE a.tf[k] = b.tf[k]
                      /\ a.op = "strokeRoundRect" =>
                            \A k \in {1, 2, 5, 6} : SameOfMin(p, e, a.geom[k], b.geom[k])
                      /\ a.op = "shadow" =>
                            /\ SameOfMin(p, e, a.geom[1], b.geom[1])
                            /\ SameOfWidth(p, e, a.geom[2], b.geom[2])
                            /\ SameOfHeight(p, e, a.geom[3], b.geom[3])
                      /\ a.op \in {"fillRect", "drawImage"} =>
                            /\ SameOfWidth(p, e, a.geom[3], b.geom[3])
                            /\ SameOfHeight(p, e, a.geom[4], b.geom[4])
             /\ \A j \in 1..Len(renders[p].state.effects) :
                   2 * Abs(BlurRadius(p, j) * MinSide(e) - BlurRadius(e, j) * MinSide(p))
                      <= MinSide(p) + MinSide(e)

\* C19 witness: a downscaled preview and an export of a state with a visible
\* border, a moved subject, a shadow and a blur have both been encoded, and the
\* preview skipped the blur that the export applied.
C19_Witness ==
    \E p \in 1..Len(renders) : \E e \in 1..Len(renders) :
        /\ renders[p].quality = "preview" /\ renders[e].quality = "export"
        /\ renders[p].pc = "done" /\ renders[e].pc = "done"
        /\ renders[p].width < renders[e].width
        /\ VisibleLayers(p) = {1, 2, 3}
        /\ \E n \in 1..Len(Drawn(p)) : Drawn(p)[n].op = "shadow"
        /\ \E j \in EnabledEffects(p) : BlurRadius(p, j) = 0 /\ BlurRadius(e, j) > 0


\* The toBlob result a render() call with the given arguments produces on an
\* engine no other call touches: the call is run to its encoding step.
RECURSIVE runToEncode(_)
runToEncode(R) ==
    IF R.renders[1].pc \in {"encode", "done"} THEN R.renders[1].blob
    ELSE IF R.renders[1].pc = "restore"
         THEN runToEncode(restoreLayer([R EXCEPT !.microtasks = Tail(@)], 1))
         ELSE runToEncode(renderFrom([R EXCEPT !.microtasks = Tail(@)], 1, R.renders[1].i))

Alone(state, bitmap, quality) ==
    runToEncode(render([canvas |-> NewCanvas, renders |-> <<>>, microtasks |-> <<>>],
                       state, bitmap, quality))

\* A bitmap without the bookkeeping of which call painted each mark.
Pixels(blob) ==
    [width |-> blob.width, height |-> blob.height,
     surface |-> [n \in 1..Len(blob.surface) |-> [blob.surface[n] EXCEPT !.by = 0]]]

\* C27: every render() call that has reached encoding holds the bitmap the
\* same call produces when it runs alone on the engine, also when another
\* render() call started while it was suspended.
C27_OverlappingRendersIndependent ==
    \A c \in 1..Len(renders) :
        renders[c].pc \in {"encode", "done"} =>
            Pixels(renders[c].blob) =
                Pixels(Alone(renders[c].state, renders[c].bitmap, renders[c].quality))

(***************************************************************************)
(* ModeSelectionModal: processAllImages and useAbortController             *)
(***************************************************************************)

\* processAllImages calls made (the auto-process effect fires once per change)
MaxRuns == 2

\* files passed to the modal
MaxFiles == 2

\* The component state and the ref of useAbortController, as one record.
Modal == [controllerRef |-> controllerRef, aborted |-> aborted, runs |-> runs,
          processedResults |-> processedResults, isProcessing |-> isProcessing,
          processingProgress |-> processingProgress, published |-> published]

SetModal(M) ==
    /\ controllerRef' = M.controllerRef
    /\ aborted' = M.aborted
    /\ runs' = M.runs
    /\ processedResults' = M.processedResults
    /\ isProcessing' = M.isProcessing
    /\ processingProgress' = M.processingProgress
    /\ published' = M.published

Progress(current, total, percent, stage) ==
    [current |-> current, total |-> total, percent |-> percent, stage |-> stage]

\* useAbortController.abort: controllerRef.current?.abort()
abort(M) ==
    IF M.controllerRef # 0 THEN [M EXCEPT !.aborted = @ \cup {M.controllerRef}] ELSE M

\* useAbortController.getController: abort the previous controller, create a
\* new one.  Controllers are numbered in creation order; processAllImages is
\* the only caller, so the controller of run r is r.
getController(M) ==
    [abort(M) EXCEPT !.controllerRef = Len(M.runs) + 1]

\* isAbortError(error)
isAbortError(e) == e = "AbortError"

\* What `await processImage(file, config)` can settle to for a run whose
\* signal is s: a blob, an ordinary error, or an AbortError once s is aborted.
Outcomes(M, s) == {"blob", "Error"} \cup (IF s \in M.aborted THEN {"AbortError"} ELSE {})

\* The statements after the for loop, without the test of signal.aborted.
finishAlwaysPublishes(M, r) ==
    LET run == M.runs[r]
        n == Len(files)
    IN [M EXCEPT !.processedResults = run.results,
                 !.published = Append(@, [run |-> r, latest |-> Len(M.runs),
                                          results |-> run.results]),
                 !.processingProgress = Progress(n, n, 100, "Complete!"),
                 !.isProcessing = FALSE,
                 !.runs[r].pc = "done",
                 !.runs[r].publishedIt = TRUE]

\* The statements after the for loop (part_005:218-229).
finish(M, r) ==
    LET run == M.runs[r]
        n == Len(files)
    IN IF run.signal \notin M.aborted
       THEN [M EXCEPT !.processedResults = run.results,
                      !.published = Append(@, [run |-> r, latest |-> Len(M.runs),
                                               results |-> run.results]),
                      !.processingProgress = Progress(n, n, 100, "Complete!"),
                      !.isProcessing = FALSE,
                      !.runs[r].pc = "done",
                      !.runs[r].publishedIt = TRUE]
       ELSE [M EXCEPT !.processingProgress = Progress(0, 0, 0, "Cancelled"),
                      !.isProcessing = FALSE,
                      !.runs[r].pc = "done"]

\* The head of the for loop at index runs[r].i, up to the `await` of the
\* 10 ms timer, or through the statements after the loop when it ends.
loop(M, r) ==
    LET run == M.runs[r]
        n == Len(files)
    IN IF run.i < n /\ run.signal \notin M.aborted
       THEN [M EXCEPT !.processingProgress =
                          Progress(run.i + 1, n, Round(100 * run.i, n), "Processing"),
                      !.runs[r].pc = "timer"]
       ELSE finish(M, r)

\* A catch block that leaves the loop on any error.
settledStopsOnError(M, r, outcome) ==
    LET run == M.runs[r]
        n == Len(files)
    IN IF outcome = "blob"
       THEN loop([M EXCEPT !.runs[r].results =
                               Append(@, [originalName |-> files[run.i + 1],
                                          i |-> run.i, run |-> r]),
                           !.processingProgress =
                               Progress(run.i + 1, n, Round(100 * (run.i + 1), n), "Completed"),
                           !.runs[r].i = @ + 1], r)
       ELSE finish([M EXCEPT !.runs[r].failed = @ \cup {run.i}], r)

\* The try/catch around `await processImage(file, config)` once the promise
\* has settled, and on into the next iteration (part_005:185-215).
settled(M, r, outcome) ==
    LET run == M.runs[r]
        n == Len(files)
    IN IF outcome = "blob"
       THEN loop([M EXCEPT !.runs[r].results =
                               Append(@, [originalName |-> files[run.i + 1],
                                          i |-> run.i, run |-> r]),
                           !.processingProgress =
                               Progress(run.i + 1, n, Round(100 * (run.i + 1), n), "Completed"),
                           !.runs[r].i = @ + 1], r)
       ELSE IF isAbortError(outcome)
       THEN finish(M, r)
       ELSE loop([M EXCEPT !.processingProgress.stage = "Failed",
                           !.runs[r].failed = @ \cup {run.i},
                           !.runs[r].i = @ + 1], r)

\* processAllImages up to its first await (part_005:134-183); the caller has
\* a selected mode and at least one file.
processAllImages(M) ==
    LET r == Len(M.runs) + 1
        M1 == getController(abort(M))
        M2 == [M1 EXCEPT !.isProcessing = TRUE,
                         !.processingProgress = Progress(0, Len(files), 0, "Starting"),
                         !.processedResults = <<>>,
                         !.runs = Append(@, [signal |-> M1.controllerRef, i |-> 0,
                                             pc |-> "loop", results |-> <<>>,
                                             attempted |-> {}, failed |-> {},
                                             publishedIt |-> FALSE])]
    IN loop(M2, r)

\* handleCancelProcessing (part_005:233-238)
handleCancelProcessing(M) ==
    [abort(M) EXCEPT !.isProcessing = FALSE,
                     !.processingProgress = Progress(0, 0, 0, "Cancelled")]

(***************************************************************************)
(* Actions of SpecBatch                                                    *)
(***************************************************************************)

\* The debounce timer of the auto-process effect fires (a mode is selected
\* and a setting has changed).
ProcessAllImages ==
    /\ Len(runs) < MaxRuns
    /\ SetModal(processAllImages(Modal))
    /\ UNCHANGED <<files, notBatch>>

\* The 10 ms timer of run r fires: processImage is called on files[i].
TimerFired ==
    \E r \in 1..Len(runs) :
        /\ runs[r].pc = "timer"
        /\ SetModal([Modal EXCEPT !.runs[r].pc = "processImage",
                                  !.runs[r].attempted = @ \cup {runs[r].i}])
        /\ UNCHANGED <<files, notBatch>>

\* The promise of processImage settles for run r.
ProcessImageSettled ==
    \E r \in 1..Len(runs) : \E outcome \in Outcomes(Modal, runs[r].signal) :
        /\ runs[r].pc = "processImage"
        /\ SetModal(settled(Modal, r, outcome))
        /\ UNCHANGED <<files, notBatch>>

\* The user presses Cancel, which is shown while isProcessing.
HandleCancelProcessing ==
    /\ isProcessing
    /\ SetModal(handleCancelProcessing(Modal))
    /\ UNCHANGED <<files, notBatch>>

(***************************************************************************)
(* Claims about processAllImages (SpecBatch)                               *)
(***************************************************************************)

Successes(r) == SelectSeq(files, LAMBDA f : (f - 1) \notin runs[r].failed)

Names(rs) == [k \in 1..Len(rs) |-> rs[k].originalName]

\* onError is delivered to job j in this step.
IsErrorOf(j) ==
    /\ Len(trace'[j]) = Len(trace[j]) + 1
    /\ trace'[j][Len(trace'[j])].cb = "onError"

HasError(j) == \E i \in 1..Len(trace[j]) : trace[j][i].cb = "onError"

\* C15: a failure of one image does not stop the batch: a run of
\* processAllImages that was not aborted has called processImage on every
\* file, and what it published is the results of the files that did not fail,
\* in file order.  In the worker pool, the step that delivers a job's error
\* leaves no slot bound to that job and dispatches the head of the queue (with
\* an empty queue a slot is left idle).
C15_FailureDoesNotStopBatch ==
    /\ [](\A r \in 1..Len(runs) :
             (runs[r].pc = "done" /\ (runs[r].signal \notin aborted \/ runs[r].publishedIt)) =>
                 /\ runs[r].attempted = 0..(Len(files) - 1)
                 /\ runs[r].publishedIt
                 /\ \E k \in 1..Len(published) :
                       /\ published[k].run = r
                       /\ Names(published[k].results) = Successes(r))
    /\ [][\A j \in JobIds :
             IsErrorOf(j) =>
                 /\ \A k \in 1..Len(workers) : workers'[k].currentJobId # j
                 /\ queue # <<>> =>
                       /\ queue' = Tail(queue)
                       /\ Head(queue) \in activeJobs'
                       /\ \E k \in 1..Len(workers) :
                             workers'[k].busy /\ workers'[k].currentJobId = Head(queue)
                 /\ queue = <<>> => \E k \in 1..Len(workers) : ~workers'[k].busy]_vars

\* C15 witness: a run in which the first file failed has gone on to the
\* second file and published its result.
C15_Witness ==
    \E r \in 1..Len(runs) :
        /\ runs[r].pc = "done" /\ runs[r].publishedIt
        /\ runs[r].failed = {0}
        /\ Names(processedResults) = <<2>>

\* C29: after a run publishes, processedResults[k] is the result of files[k]
\* for every index k that has an entry (files[k] of the code is files[k + 1]
\* here), also when an earlier file of the batch failed.
C29_ResultsAlignedWithFiles ==
    \A k \in 1..Len(processedResults) : processedResults[k].originalName = files[k]

\* C30: while the most recently started run has neither finished nor been
\* cancelled by the user (its signal is aborted by handleCancelProcessing
\* only, there being no later run), isProcessing is true and the progress
\* stage is not 'Cancelled'.
C30_LatestRunKeepsProcessingFlag ==
    (runs # <<>> /\ runs[Len(runs)].pc # "done" /\ runs[Len(runs)].signal \notin aborted) =>
        /\ isProcessing
        /\ processingProgress.stage # "Cancelled"

(***************************************************************************)
(* Home page, UploadZone and validateImageFile                             *)
(***************************************************************************)

ALLOWED_TYPES == <<"image/jpeg", "image/png", "image/webp">>

MAX_SIZE_MB == 10

MAX_SIZE_BYTES == MAX_SIZE_MB * 1024 * 1024

\* files pending in the modal; files picked in one dialog or dropped at once
MaxPending == 2

\* The files a user can pick: File.type and File.size.
FileTypes == {"image/jpeg", "image/png", "image/webp", "image/gif"}

FileSizes == {1024 * 1024, MAX_SIZE_BYTES, MAX_SIZE_BYTES + 1}

Files == [type : FileTypes, size : FileSizes]

Selections == UNION {[1..n -> Files] : n \in 1..MaxPending}

TypeError == "Invalid file type. Please upload JPG, PNG, or WebP images."

SizeError == "File too large. Maximum size is 10MB."

validateImageFile(file) ==
    IF ~(\E i \in 1..Len(ALLOWED_TYPES) : ALLOWED_TYPES[i] = file.type)
    THEN [valid |-> FALSE, error |-> TypeError]
    ELSE IF file.size > MAX_SIZE_BYTES
    THEN [valid |-> FALSE, error |-> SizeError]
    ELSE [valid |-> TRUE, error |-> ""]

\* The for loop of handleDrop / handleFileInput: the valid files, and the
\* error text of the last invalid one.
validFiles(fs) == SelectSeq(fs, LAMBDA f : validateImageFile(f).valid)

RECURSIVE lastError(_, _)
lastError(fs, e) ==
    IF fs = <<>> THEN e
    ELSE lastError(Tail(fs),
                   IF validateImageFile(Head(fs)).valid THEN e
                   ELSE validateImageFile(Head(fs)).error)

\* Home.handleFileSelect
handleFileSelect(fs) ==
    /\ pendingFiles' = pendingFiles \o fs
    /\ showModeModal' = TRUE

(***************************************************************************)
(* Actions of SpecUpload                                                   *)
(***************************************************************************)

\* UploadZone.handleDrop; `disabled` is the queue's isProcessing.
HandleDrop ==
    \E fs \in Selections : \E disabled \in BOOLEAN :
        /\ Len(pendingFiles) + Len(fs) <= MaxPending
        /\ IF disabled
           THEN UNCHANGED <<pendingFiles, showModeModal, error>>
           ELSE /\ error' = IF validFiles(fs) # <<>> /\ lastError(fs, "") = ""
                            THEN "" ELSE lastError(fs, error)
                /\ IF validFiles(fs) # <<>>
                   THEN handleFileSelect(validFiles(fs))
                   ELSE UNCHANGED <<pendingFiles, showModeModal>>
        /\ UNCHANGED notUpload

\* UploadZone.handleFileInput
HandleFileInput ==
    \E fs \in Selections :
        /\ Len(pendingFiles) + Len(fs) <= MaxPending
        /\ error' = IF validFiles(fs) # <<>> THEN "" ELSE lastError(fs, error)
        /\ IF validFiles(fs) # <<>>
           THEN handleFileSelect(validFiles(fs))
           ELSE UNCHANGED <<pendingFiles, showModeModal>>
        /\ UNCHANGED notUpload

\* Home.handleAddMore opens the hidden input of the page (the button is in
\* the modal); Home.handleAdditionalFiles receives the files picked.
HandleAdditionalFiles ==
    \E fs \in Selections :
        /\ showModeModal /\ pendingFiles # <<>>
        /\ Len(pendingFiles) + Len(fs) <= MaxPending
        /\ pendingFiles' = pendingFiles \o fs
        /\ UNCHANGED <<showModeModal, error, notUpload>>

\* Home.handleRemoveFile(index)
HandleRemoveFile ==
    \E index \in 0..(Len(pendingFiles) - 1) :
        /\ showModeModal
        /\ pendingFiles' = [k \in 1..(Len(pendingFiles) - 1) |->
                               IF k <= index THEN pendingFiles[k] ELSE pendingFiles[k + 1]]
        /\ showModeModal' = IF Len(pendingFiles) <= 1 THEN FALSE ELSE showModeModal
        /\ UNCHANGED <<error, notUpload>>

\* Home.handleComplete and Home.handleCancelUpload
HandleCloseModal ==
    /\ showModeModal /\ pendingFiles # <<>>
    /\ showModeModal' = FALSE
    /\ pendingFiles' = <<>>
    /\ UNCHANGED <<error, notUpload>>

(***************************************************************************)
(* Claims about file validation (SpecUpload)                               *)
(***************************************************************************)

Accepted(file) ==
    /\ file.type \in {"image/jpeg", "image/png", "image/webp"}
    /\ file.size <= 10 * 1024 * 1024

\* C16: every file in the pending-file list handed to the mode modal has
\* passed validateImageFile, which accepts a file exactly when its type is
\* image/jpeg, image/png or image/webp and its size is at most 10 MiB; a file
\* failing either check is rejected on the drop, upload-input and add-more
\* paths.
C16_OnlyValidFilesEnter ==
    /\ \A f \in Files : validateImageFile(f).valid <=> Accepted(f)
    /\ \A k \in 1..Len(pendingFiles) : validateImageFile(pendingFiles[k]).valid

(***************************************************************************)
(* lib/imageProcessing: removeSpecificColor and blurBackgroundOnly         *)
(***************************************************************************)

\* pixels of an image
MaxPixels == 2

CHUNK_SIZE == 50000

\* A pixel of ImageData.data: four bytes.
Px(r, g, b, a) == [r |-> r, g |-> g, b |-> b, a |-> a]

\* parseInt(s, 16) of one and of two hexadecimal digits
HexDigit(c) ==
    CASE c = "0" -> 0 [] c = "1" -> 1 [] c = "2" -> 2 [] c = "3" -> 3
      [] c = "4" -> 4 [] c = "5" -> 5 [] c = "6" -> 6 [] c = "7" -> 7
      [] c = "8" -> 8 [] c = "9" -> 9
      [] c \in {"a", "A"} -> 10 [] c \in {"b", "B"} -> 11 [] c \in {"c", "C"} -> 12
      [] c \in {"d", "D"} -> 13 [] c \in {"e", "E"} -> 14 [] c \in {"f", "F"} -> 15

ParseHex(s) == 16 * HexDigit(s[1]) + HexDigit(s[2])

\* The colours a call is made with: the default, what <input type="color">
\* reports for it, and a dark colour.
TargetColors ==
    {<<"#", "0", "0", "F", "F", "0", "0">>,
     <<"#", "0", "0", "f", "f", "0", "0">>,
     <<"#", "0", "A", "1", "4", "1", "e">>}

Tolerances == {0, 10, 30}

ColorPixels ==
    {Px(0, 255, 0, 255), Px(1, 255, 0, 255), Px(5, 250, 3, 255), Px(10, 245, 10, 200),
     Px(10, 245, 11, 255), Px(10, 20, 30, 255), Px(40, 50, 60, 128), Px(40, 50, 61, 0)}

ColorImages == UNION {[1..n -> ColorPixels] : n \in 1..MaxPixels}

\* The inner loop of removeSpecificColor over the pixels startPixel..endPixel-1
\* with `<` in place of `<=`.
removeStrictly(data, pixel, endPixel, target, toleranceSquared) ==
    [k \in 1..Len(data) |->
        IF /\ pixel < k /\ k <= endPixel
           /\ (data[k].r - target[1]) * (data[k].r - target[1])
              + (data[k].g - target[2]) * (data[k].g - target[2])
              + (data[k].b - target[3]) * (data[k].b - target[3]) < toleranceSquared
        THEN [data[k] EXCEPT !.a = 0]
        ELSE data[k]]

\* The inner loop of removeSpecificColor over the pixels startPixel..endPixel-1
\* (0-based; pixel k of the code is data[k + 1] here).
removeChunk(data, pixel, endPixel, target, toleranceSquared) ==
    [k \in 1..Len(data) |->
        IF /\ pixel < k /\ k <= endPixel
           /\ (data[k].r - target[1]) * (data[k].r - target[1])
              + (data[k].g - target[2]) * (data[k].g - target[2])
              + (data[k].b - target[3]) * (data[k].b - target[3]) <= toleranceSquared
        THEN [data[k] EXCEPT !.a = 0]
        ELSE data[k]]

\* The outer loop: one chunk, a yield, the next chunk.
RECURSIVE removeFrom(_, _, _, _)
removeFrom(data, startPixel, target, toleranceSquared) ==
    IF startPixel < Len(data)
    THEN removeFrom(removeChunk(data, startPixel, Min(startPixel + CHUNK_SIZE, Len(data)),
                                target, toleranceSquared),
                    startPixel + CHUNK_SIZE, target, toleranceSquared)
    ELSE data

\* removeSpecificColor, from getImageData to putImageData.
removeSpecificColor(data, targetColor, tolerance) ==
    LET targetR == ParseHex(SubSeq(targetColor, 2, 3))
        targetG == ParseHex(SubSeq(targetColor, 4, 5))
        targetB == ParseHex(SubSeq(targetColor, 6, 7))
        toleranceSquared == tolerance * tolerance * 3
    IN removeFrom(data, 0, <<targetR, targetG, targetB>>, toleranceSquared)

\* Mask alphas, and the colours of the sharp and the blurred copy.
MaskAlphas == {0, 128, 129, 255}

SharpPixels == {Px(10, 20, 30, 255), Px(200, 100, 50, 255)}

BlurredPixels == {Px(11, 21, 31, 255), Px(90, 90, 90, 255)}

\* createImageData: transparent black
Blank == Px(0, 0, 0, 0)

\* The compositing loop with `>=` in place of `>`.
compositeFrom128(final, mask, sharp, blurred, pixel, endPixel) ==
    [k \in 1..Len(final) |->
        IF pixel < k /\ k <= endPixel
        THEN IF mask[k] >= 128
             THEN Px(sharp[k].r, sharp[k].g, sharp[k].b, 255)
             ELSE Px(blurred[k].r, blurred[k].g, blurred[k].b, 255)
        ELSE final[k]]

\* The inner loop of the compositing step over one chunk.
compositeChunk(final, mask, sharp, blurred, pixel, endPixel) ==
    [k \in 1..Len(final) |->
        IF pixel < k /\ k <= endPixel
        THEN IF mask[k] > 128
             THEN Px(sharp[k].r, sharp[k].g, sharp[k].b, 255)
             ELSE Px(blurred[k].r, blurred[k].g, blurred[k].b, 255)
        ELSE final[k]]

RECURSIVE compositeLoop(_, _, _, _, _)
compositeLoop(final, mask, sharp, blurred, startPixel) ==
    IF startPixel < Len(mask)
    THEN compositeLoop(compositeChunk(final, mask, sharp, blurred, startPixel,
                                      Min(startPixel + CHUNK_SIZE, Len(mask))),
                       mask, sharp, blurred, startPixel + CHUNK_SIZE)
    ELSE final

\* blurBackgroundOnly from createImageData to putImageData; the mask that
\* removeBackground returns has the size of the original.
blurBackgroundOnly(mask, sharp, blurred) ==
    compositeLoop([k \in 1..Len(sharp) |-> Blank], mask, sharp, blurred, 0)

NotRun == [done |-> FALSE, data |-> <<>>]

(***************************************************************************)
(* Actions of SpecRemoveColor and SpecBlur                                 *)
(***************************************************************************)

RemoveSpecificColor ==
    /\ ~ret.done
    /\ arg.fn = "removeSpecificColor"
    /\ ret' = [done |-> TRUE,
               data |-> removeSpecificColor(arg.data, arg.targetColor, arg.tolerance)]
    /\ UNCHANGED <<arg, notPixel>>

BlurBackgroundOnly ==
    /\ ~ret.done
    /\ arg.fn = "blurBackgroundOnly"
    /\ ret' = [done |-> TRUE,
               data |-> blurBackgroundOnly(arg.mask, arg.sharp, arg.blurred)]
    /\ UNCHANGED <<arg, notPixel>>

\* ProcessingConfig values of mode 'remove-color'; an optional field that is
\* not given is absent from the record (reads as undefined).
Configs ==
    [mode : {"remove-color"}]
        \cup [mode : {"remove-color"}, colorToRemove : TargetColors]
        \cup [mode : {"remove-color"}, colorTolerance : Tolerances]
        \cup [mode : {"remove-color"}, colorToRemove : TargetColors, colorTolerance : Tolerances]

\* config.colorToRemove || '#00FF00' and config.colorTolerance || 30: the
\* right operand replaces every falsy left operand (undefined, 0).
colorToRemoveOr(config) ==
    IF "colorToRemove" \in DOMAIN config THEN config.colorToRemove
    ELSE <<"#", "0", "0", "F", "F", "0", "0">>

colorToleranceOr(config) ==
    IF "colorTolerance" \in DOMAIN config /\ config.colorTolerance # 0
    THEN config.colorTolerance
    ELSE 30

\* processImage(file, config), case 'remove-color'.
processImage(data, config) ==
    removeSpecificColor(data, colorToRemoveOr(config), colorToleranceOr(config))

ProcessImage ==
    /\ ~ret.done
    /\ arg.fn = "processImage"
    /\ ret' = [done |-> TRUE, data |-> processImage(arg.data, arg.config)]
    /\ UNCHANGED <<arg, notPixel>>

(***************************************************************************)
(* The filter arithmetic of RenderEngine.applyFilter and of applyFilters   *)
(* (SpecFilter).  A channel value v is held as the integer v * Den; the    *)
(* parameters are multiples of one half, given by their numerator k, so    *)
(* that every product and quotient below is exact.  The code computes in   *)
(* doubles; the model computes the same expressions over the rationals.    *)
(***************************************************************************)
Den == 32000

\* brightness, contrast, saturation, temperature in {-0.5, 0, 0.5}
HalfSteps == {-1, 0, 1}

FilterParams ==
    [brightness : HalfSteps, contrast : HalfSteps, saturation : HalfSteps,
     temperature : HalfSteps]

FilterPixels ==
    {Px(200, 100, 50, 255), Px(128, 128, 128, 255), Px(0, 255, 30, 128), Px(255, 255, 255, 255)}

FilterImages == UNION {[1..n -> FilterPixels] : n \in 1..MaxPixels}

\* v * (1 + k/2) and v * (1 + k/2)^2
TimesOnePlus(v, k) == (v * (2 + k)) \div 2

TimesOnePlusSquared(v, k) == (v * ((2 + k) * (2 + k))) \div 4

\* ((v / 255 - 0.5) * factor + 0.5) * 255 = (v - 127.5) * factor + 127.5
Mid == (255 * Den) \div 2

\* 0.299 * r + 0.587 * g + 0.114 * b
Gray(r, g, b) == 299 * (r \div 1000) + 587 * (g \div 1000) + 114 * (b \div 1000)

\* Math.max(0, Math.min(255, v)) stored into a Uint8ClampedArray, which
\* rounds to the nearest integer, ties to even.
Clamp(v) ==
    LET c == Max(0, Min(255 * Den, v))
        q == c \div Den
        rem == c % Den
    IN IF 2 * rem > Den \/ (2 * rem = Den /\ q % 2 = 1) THEN q + 1 ELSE q

\* RenderEngine.applyFilter, one pixel
applyFilterPixel(px, params) ==
    LET r1 == TimesOnePlus(px.r * Den, params.brightness)
        g1 == TimesOnePlus(px.g * Den, params.brightness)
        b1 == TimesOnePlus(px.b * Den, params.brightness)
        r2 == TimesOnePlus(r1 - Mid, params.contrast) + Mid
        g2 == TimesOnePlus(g1 - Mid, params.contrast) + Mid
        b2 == TimesOnePlus(b1 - Mid, params.contrast) + Mid
        gray == Gray(r2, g2, b2)
        r3 == gray + TimesOnePlus(r2 - gray, params.saturation)
        g3 == gray + TimesOnePlus(g2 - gray, params.saturation)
        b3 == gray + TimesOnePlus(b2 - gray, params.saturation)
    IN Px(Clamp(r3), Clamp(g3), Clamp(b3), px.a)

applyFilter(data, params) == [k \in 1..Len(data) |-> applyFilterPixel(data[k], params)]

\* applyFilters(ctx, width, height, params) with intensity 1, one pixel; the
\* keys not given take DEFAULT_FILTER_PARAMS (exposure 0: factor 2 ** 0 = 1,
\* no vignette, no grain).
applyFiltersPixel(px, params) ==
    LET r1 == TimesOnePlus(px.r * Den, params.brightness)
        g1 == TimesOnePlus(px.g * Den, params.brightness)
        b1 == TimesOnePlus(px.b * Den, params.brightness)
        r2 == TimesOnePlusSquared(r1 - Mid, params.contrast) + Mid
        g2 == TimesOnePlusSquared(g1 - Mid, params.contrast) + Mid
        b2 == TimesOnePlusSquared(b1 - Mid, params.contrast) + Mid
        gray == Gray(r2, g2, b2)
        r3 == gray + TimesOnePlus(r2 - gray, params.saturation)
        g3 == gray + TimesOnePlus(g2 - gray, params.saturation)
        b3 == gray + TimesOnePlus(b2 - gray, params.saturation)
        tempShift == 15 * Den * params.temperature
    IN Px(Clamp(r3 + tempShift), Clamp(g3), Clamp(b3 - tempShift), px.a)

applyFilters(data, params) == [k \in 1..Len(data) |-> applyFiltersPixel(data[k], params)]

ApplyFilter ==
    /\ ~ret.done
    /\ arg.fn = "applyFilter"
    /\ ret' = [done |-> TRUE, data |-> applyFilter(arg.data, arg.params)]
    /\ UNCHANGED <<arg, notPixel>>

\* C24: for the same brightness, contrast, saturation and temperature the
\* RenderEngine filter effect leaves every pixel as applyFilters computes it:
\* brightness, contrast pivoted at mid-gray with factor (1 + contrast)^2,
\* saturation about the luma, the temperature shift of R and B, clamp.
C24_FilterMatchesApplyFilters ==
    (ret.done /\ arg.fn = "applyFilter") => ret.data = applyFilters(arg.data, arg.params)

(***************************************************************************)
(* The chunk loops of removeSpecificColor and blurBackgroundOnly, one step *)
(* per chunk and per timer (SpecChunks).  The loop state is                *)
(* [pc, startPixel, yields, visited]; visited lists the index ranges       *)
(* <<startPixel, endPixel>> the inner for loop has run over.               *)
(***************************************************************************)
MaxChunks == 3

\* data.length / 4: image sizes around the multiples of CHUNK_SIZE
TotalPixels ==
    {n \in {k * CHUNK_SIZE + d : k \in 0..MaxChunks, d \in {-1, 0, 1}} : n >= 0}

LoopStart == [pc |-> "head", startPixel |-> 0, yields |-> 0, visited |-> <<>>]

\* One chunk with the end of the chunk not clamped to totalPixels.
chunkUnclamped(L, totalPixels) ==
    [L EXCEPT !.pc = "yield",
              !.visited = Append(@, <<L.startPixel, L.startPixel + CHUNK_SIZE>>)]

\* The outer loop body up to the await: endPixel and the inner for loop over
\* startPixel .. endPixel - 1.
chunk(L, totalPixels) ==
    LET endPixel == Min(L.startPixel + CHUNK_SIZE, totalPixels)
    IN [L EXCEPT !.pc = "yield", !.visited = Append(@, <<L.startPixel, endPixel>>)]

\* The setTimeout(resolve, 0) callback and the loop increment.
yielded(L) ==
    [L EXCEPT !.pc = "head", !.yields = @ + 1, !.startPixel = @ + CHUNK_SIZE]

\* startPixel < totalPixels holds: the next chunk runs up to its await.
ChunkRun ==
    /\ arg.fn = "chunks" /\ ret.pc = "head"
    /\ ret.startPixel < arg.totalPixels
    /\ ret' = chunk(ret, arg.totalPixels)
    /\ UNCHANGED <<arg, notPixel>>

\* The timer of `await new Promise(resolve => setTimeout(resolve, 0))` fires.
ChunkYielded ==
    /\ arg.fn = "chunks" /\ ret.pc = "yield"
    /\ ret' = yielded(ret)
    /\ UNCHANGED <<arg, notPixel>>

\* startPixel < totalPixels fails: the loop is left (putImageData follows).
ChunkLoopExit ==
    /\ arg.fn = "chunks" /\ ret.pc = "head"
    /\ ~(ret.startPixel < arg.totalPixels)
    /\ ret' = [ret EXCEPT !.pc = "done"]
    /\ UNCHANGED <<arg, notPixel>>

\* How many of the chunks run so far visited pixel index p.
Visits(p) == Cardinality({n \in 1..Len(ret.visited) :
                            ret.visited[n][1] <= p /\ p < ret.visited[n][2]})

\* C22: both chunk loops visit no index outside [0, totalPixels) and none
\* twice, run chunks of at most CHUNK_SIZE pixels with exactly one yield after
\* each chunk (the chunks run never exceed the yields by more than the one in
\* progress), and terminate: the loop is eventually left, having visited every
\* index exactly once after ceil(totalPixels / CHUNK_SIZE) yields, 0 yields
\* for an image of 0 pixels.
C22_ChunkLoopSafe ==
    /\ \A n \in 1..Len(ret.visited) :
          /\ 0 <= ret.visited[n][1] /\ ret.visited[n][2] <= arg.totalPixels
          /\ ret.visited[n][2] - ret.visited[n][1] <= CHUNK_SIZE
    /\ Len(ret.visited) = ret.yields + (IF ret.pc = "yield" THEN 1 ELSE 0)
    /\ ret.pc = "done" =>
          /\ \A p \in 0..(arg.totalPixels - 1) : Visits(p) = 1
          /\ ret.yields = (arg.totalPixels + CHUNK_SIZE - 1) \div CHUNK_SIZE

C22_ChunkLoopVisitsOnceAndTerminates ==
    /\ [](C22_ChunkLoopSafe)
    /\ <>(ret.pc = "done")

C22_Witness ==
    /\ arg.fn = "chunks" /\ arg.totalPixels = 2 * CHUNK_SIZE + 1
    /\ ret.pc = "done" /\ ret.yields = 3
    /\ ret.visited = <<<<0, CHUNK_SIZE>>, <<CHUNK_SIZE, 2 * CHUNK_SIZE>>,
                        <<2 * CHUNK_SIZE, 2 * CHUNK_SIZE + 1>>>>

(***************************************************************************)
(* Claims about the pixel functions                                        *)
(***************************************************************************)

\* The colour a #rrggbb string names.
Rgb(targetColor) ==
    IF targetColor = <<"#", "0", "A", "1", "4", "1", "e">> THEN <<10, 20, 30>>
    ELSE <<0, 255, 0>>

Sq(x) == x * x

\* C17: removeSpecificColor sets a pixel's alpha to 0 exactly when
\* (r-tr)^2 + (g-tg)^2 + (b-tb)^2 <= 3 * tolerance^2 and changes nothing else:
\* a removed pixel keeps its RGB and every other pixel keeps its four
\* channels.  For target #00FF00: with tolerance 0 the pixel (0,255,0) is
\* removed and (1,255,0) is kept, with tolerance 10 the pixel (5,250,3) is
\* removed.
C17_RemovesWithinTolerance ==
    (ret.done /\ arg.fn = "removeSpecificColor") =>
        /\ Len(ret.data) = Len(arg.data)
        /\ \A k \in 1..Len(arg.data) :
              LET p == arg.data[k]
                  t == Rgb(arg.targetColor)
              IN /\ (Sq(p.r - t[1]) + Sq(p.g - t[2]) + Sq(p.b - t[3])
                        <= 3 * arg.tolerance * arg.tolerance)
                       => ret.data[k] = Px(p.r, p.g, p.b, 0)
                 /\ (Sq(p.r - t[1]) + Sq(p.g - t[2]) + Sq(p.b - t[3])
                        > 3 * arg.tolerance * arg.tolerance)
                       => ret.data[k] = p
                 /\ (Rgb(arg.targetColor) = <<0, 255, 0>> /\ arg.tolerance = 0) =>
                       /\ p = Px(0, 255, 0, 255) => ret.data[k].a = 0
                       /\ p = Px(1, 255, 0, 255) => ret.data[k].a = 255
                 /\ (Rgb(arg.targetColor) = <<0, 255, 0>> /\ arg.tolerance = 10) =>
                       /\ p = Px(5, 250, 3, 255) => ret.data[k].a = 0

\* C17 witness: with target #00ff00 and tolerance 10 the call has removed a
\* pixel at distance exactly 300 and kept its neighbour at distance 321.
C17_Witness ==
    /\ ret.done /\ arg.fn = "removeSpecificColor"
    /\ arg.targetColor = <<"#", "0", "0", "f", "f", "0", "0">> /\ arg.tolerance = 10
    /\ arg.data = <<Px(10, 245, 10, 200), Px(10, 245, 11, 255)>>
    /\ ret.data = <<Px(10, 245, 10, 0), Px(10, 245, 11, 255)>>

\* C23: processImage in 'remove-color' mode uses the colorTolerance the caller
\* gives, whatever its value (0 included): a pixel becomes transparent exactly
\* when its squared distance to the target colour is at most
\* 3 * colorTolerance^2, so with colorTolerance 0 only pixels equal to the
\* target colour do.
C23_ToleranceAppliedUnchanged ==
    (ret.done /\ arg.fn = "processImage" /\ "colorTolerance" \in DOMAIN arg.config) =>
        /\ Len(ret.data) = Len(arg.data)
        /\ \A k \in 1..Len(arg.data) :
              LET t == Rgb(colorToRemoveOr(arg.config))
                  d == Sq(arg.data[k].r - t[1]) + Sq(arg.data[k].g - t[2])
                         + Sq(arg.data[k].b - t[3])
              IN ret.data[k].a =
                    IF d <= 3 * Sq(arg.config.colorTolerance) THEN 0 ELSE arg.data[k].a

\* C18: every output pixel of blurBackgroundOnly has the RGB of the original
\* where the mask alpha is > 128 and the RGB of the blurred copy otherwise
\* (129 selects sharp, 128 selects blurred), and alpha 255.
C18_MaskSelectsSharpOrBlurred ==
    (ret.done /\ arg.fn = "blurBackgroundOnly") =>
        /\ Len(ret.data) = Len(arg.sharp)
        /\ \A k \in 1..Len(ret.data) :
              /\ ret.data[k].a = 255
              /\ arg.mask[k] \in 129..255 =>
                    <<ret.data[k].r, ret.data[k].g, ret.data[k].b>>
                        = <<arg.sharp[k].r, arg.sharp[k].g, arg.sharp[k].b>>
              /\ arg.mask[k] \in 0..128 =>
                    <<ret.data[k].r, ret.data[k].g, ret.data[k].b>>
                        = <<arg.blurred[k].r, arg.blurred[k].g, arg.blurred[k].b>>

\* C18 witness: a two-pixel image whose mask alphas are 129 and 128 came out
\* sharp, then blurred.
C18_Witness ==
    /\ ret.done /\ arg.fn = "blurBackgroundOnly"
    /\ arg.mask = <<129, 128>>
    /\ ret.data = <<Px(arg.sharp[1].r, arg.sharp[1].g, arg.sharp[1].b, 255),
                    Px(arg.blurred[2].r, arg.blurred[2].g, arg.blurred[2].b, 255)>>
    /\ arg.sharp[2] # arg.blurred[2]

(***************************************************************************)
(* AutoProcessor: updateEffect, toggleEffect, addEffect, removeEffect      *)
(*                                                                         *)
(* JavaScript objects live on a heap: an address is an index of `heap`.    *)
(* An EditorState holds the addresses of its layers and effects arrays, an *)
(* array the addresses of its elements, an EffectNode the address of its   *)
(* params object.                                                          *)
(***************************************************************************)

\* calls made on one state
MaxCalls == 2

\* effects of the state the calls start from
MaxNodes == 2

ParamChoices ==
    {[k \in {"radius"} |-> 1], [k \in {"radius", "blur"} |-> 2], [k \in {} |-> 0]}

Alloc(h, obj) == [heap |-> Append(h, obj), result |-> Len(h) + 1]

\* { ...a, ...b } on params objects
Spread(a, b) == [k \in (DOMAIN a) \cup (DOMAIN b) |-> IF k \in DOMAIN b THEN b[k] ELSE a[k]]

\* state.effects.map(e => e.id === effectId ? { ...e, params: { ...e.params,
\* ...newParams } } : e), element by element: acc holds the new array's items.
RECURSIVE mapUpdate(_, _, _, _, _)
mapUpdate(h, items, effectId, newParams, acc) ==
    IF items = <<>> THEN [heap |-> h, result |-> acc]
    ELSE LET e == Head(items) IN
         IF h[e].id = effectId
         THEN LET ps == Alloc(h, [kind |-> "params",
                                  fields |-> Spread(h[h[e].params].fields, newParams)])
                  n == Alloc(ps.heap, [h[e] EXCEPT !.params = ps.result])
              IN mapUpdate(n.heap, Tail(items), effectId, newParams, Append(acc, n.result))
         ELSE mapUpdate(h, Tail(items), effectId, newParams, Append(acc, e))

\* state.effects.map(e => e.id === effectId ? { ...e, enabled: !e.enabled } : e)
RECURSIVE mapToggle(_, _, _, _)
mapToggle(h, items, effectId, acc) ==
    IF items = <<>> THEN [heap |-> h, result |-> acc]
    ELSE LET e == Head(items) IN
         IF h[e].id = effectId
         THEN LET n == Alloc(h, [h[e] EXCEPT !.enabled = ~@])
              IN mapToggle(n.heap, Tail(items), effectId, Append(acc, n.result))
         ELSE mapToggle(h, Tail(items), effectId, Append(acc, e))

\* { ...state, effects }: a new array object and a new state object
WithEffects(h, state, items) ==
    LET a == Alloc(h, [kind |-> "array", items |-> items])
    IN Alloc(a.heap, [h[state] EXCEPT !.effects = a.result])

updateEffect(h, state, effectId, newParams) ==
    LET mapped == mapUpdate(h, h[h[state].effects].items, effectId, newParams, <<>>)
    IN WithEffects(mapped.heap, state, mapped.result)

\* toggleEffect writing `enabled` into the node it finds.
toggleEffectInPlace(h, state, effectId) ==
    LET items == h[h[state].effects].items
    IN [heap |-> [a \in 1..Len(h) |->
                     IF (\E i \in 1..Len(items) : items[i] = a) /\ h[a].id = effectId
                     THEN [h[a] EXCEPT !.enabled = ~@] ELSE h[a]],
        result |-> state]

toggleEffect(h, state, effectId) ==
    LET mapped == mapToggle(h, h[h[state].effects].items, effectId, <<>>)
    IN WithEffects(mapped.heap, state, mapped.result)

\* addEffect; id is the uuidv4() drawn, params the caller's object
addEffect(h, state, id, type, params) ==
    LET newEffect == Alloc(h, [kind |-> "node", id |-> id, type |-> type,
                               params |-> params, enabled |-> TRUE])
    IN WithEffects(newEffect.heap, state,
                   Append(h[h[state].effects].items, newEffect.result))

removeEffect(h, state, effectId) ==
    WithEffects(h, state,
                SelectSeq(h[h[state].effects].items, LAMBDA e : h[e].id # effectId))

\* The heap that holds one EditorState with the given effect nodes: the
\* layers array with its background layer, the effects array, the state,
\* then per node its params object and the node.
HeapOf(nodes) ==
    <<[kind |-> "layer", id |-> "bg", visible |-> TRUE],
      [kind |-> "array", items |-> <<1>>],
      [kind |-> "array", items |-> [i \in 1..Len(nodes) |-> 4 + 2 * i]],
      [kind |-> "state", layers |-> 2, effects |-> 3,
       processingMode |-> "custom", previewQuality |-> 800]>>
    \o [a \in 1..(2 * Len(nodes)) |->
          IF a % 2 = 1
          THEN [kind |-> "params", fields |-> nodes[(a + 1) \div 2].params]
          ELSE [kind |-> "node", id |-> a \div 2, type |-> nodes[a \div 2].type,
                params |-> 3 + a, enabled |-> nodes[a \div 2].enabled]]

NodeChoices ==
    [type : {"blur"}, params : {[k \in {"radius"} |-> 1]}, enabled : BOOLEAN]
    \cup [type : {"shadow"}, params : {[k \in {"blur"} |-> 1]}, enabled : BOOLEAN]

NoCallYet == [fn |-> "none", effectId |-> 0, type |-> "", params |-> [k \in {} |-> 0], n |-> 0]

EffectsOf(h, state) == h[h[state].effects].items

(***************************************************************************)
(* Actions of SpecEffects: the caller replaces its state by the result     *)
(***************************************************************************)

Return(r, fn, effectId, type, params) ==
    /\ heap' = r.heap
    /\ cur' = r.result
    /\ last' = [fn |-> fn, effectId |-> effectId, type |-> type, params |-> params,
                n |-> last.n + 1]
    /\ UNCHANGED notEffect

\* Effect ids (uuids in the program) are numbered in the order they are
\* drawn.  The ids a caller may pass: those of the first nodes, and 0, which
\* no node has.
CallIds == {0, 1, 2}

UpdateEffect ==
    \E effectId \in CallIds : \E newParams \in ParamChoices :
        /\ last.n < MaxCalls
        /\ Return(updateEffect(heap, cur, effectId, newParams),
                  "updateEffect", effectId, "", newParams)

ToggleEffect ==
    \E effectId \in CallIds :
        /\ last.n < MaxCalls
        /\ Return(toggleEffect(heap, cur, effectId),
                  "toggleEffect", effectId, "", NoCallYet.params)

\* uuidv4() gives an id no node has had; the caller builds the params object.
AddEffect ==
    \E type \in {"blur", "shadow"} : \E params \in ParamChoices :
        /\ last.n < MaxCalls
        /\ LET id == Cardinality({heap[a].id : a \in {b \in 1..Len(heap) :
                                                           heap[b].kind = "node"}}) + 1
               ps == Alloc(heap, [kind |-> "params", fields |-> params])
           IN Return(addEffect(ps.heap, cur, id, type, ps.result),
                     "addEffect", id, type, params)

RemoveEffect ==
    \E effectId \in CallIds :
        /\ last.n < MaxCalls
        /\ Return(removeEffect(heap, cur, effectId),
                  "removeEffect", effectId, "", NoCallYet.params)

(***************************************************************************)
(* Claims about the effect functions (SpecEffects)                         *)
(***************************************************************************)

\* The value of an EffectNode and of an EditorState, following the addresses.
NodeVal(h, e) ==
    [id |-> h[e].id, type |-> h[e].type, enabled |-> h[e].enabled,
     params |-> h[h[e].params].fields]

EffectVals(h, state) == [i \in 1..Len(EffectsOf(h, state)) |-> NodeVal(h, EffectsOf(h, state)[i])]

OtherFields(h, state) ==
    [layers |-> [i \in 1..Len(h[h[state].layers].items) |-> h[h[h[state].layers].items[i]]],
     processingMode |-> h[state].processingMode,
     previewQuality |-> h[state].previewQuality]

\* C20: updateEffect, toggleEffect, addEffect and removeEffect return a new
\* EditorState object and write to no existing object; layers and the other
\* fields of the result equal the input's; the effects of the result are the
\* input's with only the targeted node changed (params merged / enabled
\* flipped, at the same position), one enabled node appended, or the nodes
\* with the given id removed, the others in their order; an unknown id leaves
\* the effects list equal; toggling the same effect twice gives a state equal
\* to the original.
C20_EffectFunctionsArePure ==
    /\ [](\A id \in CallIds :
             LET once == toggleEffect(heap, cur, id)
                 twice == toggleEffect(once.heap, once.result, id)
             IN /\ EffectVals(twice.heap, twice.result) = EffectVals(heap, cur)
                /\ OtherFields(twice.heap, twice.result) = OtherFields(heap, cur))
    /\ [][last'.n = last.n + 1 =>
            LET E == EffectVals(heap, cur)
                F == EffectVals(heap', cur')
                id == last'.effectId
                known == \E i \in 1..Len(E) : E[i].id = id
            IN /\ \A a \in 1..Len(heap) : heap'[a] = heap[a]
               /\ cur' \notin 1..Len(heap)
               /\ heap'[cur'].effects \notin 1..Len(heap)
               /\ OtherFields(heap', cur') = OtherFields(heap, cur)
               /\ last'.fn = "updateEffect" =>
                     /\ Len(F) = Len(E)
                     /\ \A i \in 1..Len(E) :
                           IF E[i].id = id
                           THEN /\ F[i].id = E[i].id /\ F[i].type = E[i].type
                                /\ F[i].enabled = E[i].enabled
                                /\ DOMAIN F[i].params = DOMAIN E[i].params \cup DOMAIN last'.params
                                /\ \A k \in DOMAIN last'.params : F[i].params[k] = last'.params[k]
                                /\ \A k \in DOMAIN E[i].params \ DOMAIN last'.params :
                                      F[i].params[k] = E[i].params[k]
                           ELSE F[i] = E[i]
               /\ last'.fn = "toggleEffect" =>
                     /\ Len(F) = Len(E)
                     /\ \A i \in 1..Len(E) :
                           IF E[i].id = id
                           THEN F[i] = [E[i] EXCEPT !.enabled = ~E[i].enabled]
                           ELSE F[i] = E[i]
               /\ last'.fn = "addEffect" =>
                     F = Append(E, [id |-> id, type |-> last'.type, enabled |-> TRUE,
                                    params |-> last'.params])
               /\ last'.fn = "removeEffect" =>
                     F = SelectSeq(E, LAMBDA e : e.id # id)
               /\ (last'.fn # "addEffect" /\ ~known) => F = E]_vars

\* C20 witness: a state with two effects had the second one toggled and then
\* updated with a params object that adds a key.
C20_Witness ==
    /\ last.n = 2 /\ last.fn = "updateEffect" /\ last.effectId = 2
    /\ Len(EffectsOf(heap, cur)) = 2
    /\ NodeVal(heap, EffectsOf(heap, cur)[2]).params = [k \in {"radius", "blur"} |-> 2]
    /\ NodeVal(heap, 8) = [id |-> 2, type |-> "blur", enabled |-> TRUE,
                           params |-> [k \in {"radius"} |-> 1]]
    /\ ~NodeVal(heap, EffectsOf(heap, cur)[2]).enabled

(***************************************************************************)
(* lib/security: throttle state and duplicate detection (SpecSecurity)     *)
(***************************************************************************)
THROTTLE_INTERVAL_MS == 3000

MaxSecCalls == 4

MaxTicks == 3

\* Date.now() when the module is loaded, and the step by which the clock of
\* the model advances (half the throttle interval).
StartTime == 6000

TickMs == 1500

Hashes == {"h1", "h2"}

shouldThrottle(T, t) ==
    LET timeSinceLastProcess == t - T.lastProcessTime IN
    IF timeSinceLastProcess < THROTTLE_INTERVAL_MS
    THEN [throttled |-> TRUE, waitMs |-> THROTTLE_INTERVAL_MS - timeSinceLastProcess]
    ELSE [throttled |-> FALSE]

recordProcessing(T, t, hash) ==
    [T EXCEPT !.lastProcessTime = t, !.processedHashes = @ \cup {hash}]

isDuplicateFile(T, hash) == hash \in T.processedHashes

\* clearProcessedCache that also forgets the time of the last request.
clearAlsoResetsTime(T) == [lastProcessTime |-> 0, processedHashes |-> {}]

clearProcessedCache(T) == [T EXCEPT !.processedHashes = {}]

resetThrottleState(T) == [lastProcessTime |-> 0, processedHashes |-> {}]

NoSecCall == [n |-> 0, fn |-> "none", hash |-> "", dup |-> FALSE,
              throttle |-> [throttled |-> FALSE]]

SecCall(fn, hash, dup, throttle) ==
    [n |-> secCall.n + 1, fn |-> fn, hash |-> hash, dup |-> dup, throttle |-> throttle]

ShouldThrottle ==
    /\ secCall.n < MaxSecCalls
    /\ secCall' = SecCall("shouldThrottle", "", FALSE, shouldThrottle(throttleState, now))
    /\ UNCHANGED <<throttleState, now, recorded, notSec>>

RecordProcessing ==
    \E hash \in Hashes :
        /\ secCall.n < MaxSecCalls
        /\ throttleState' = recordProcessing(throttleState, now, hash)
        /\ recorded' = recorded \cup {hash}
        /\ secCall' = SecCall("recordProcessing", hash, FALSE, [throttled |-> FALSE])
        /\ UNCHANGED <<now, notSec>>

IsDuplicateFile ==
    \E hash \in Hashes :
        /\ secCall.n < MaxSecCalls
        /\ secCall' = SecCall("isDuplicateFile", hash, isDuplicateFile(throttleState, hash),
                              [throttled |-> FALSE])
        /\ UNCHANGED <<throttleState, now, recorded, notSec>>

ClearProcessedCache ==
    /\ secCall.n < MaxSecCalls
    /\ throttleState' = clearProcessedCache(throttleState)
    /\ recorded' = {}
    /\ secCall' = SecCall("clearProcessedCache", "", FALSE, [throttled |-> FALSE])
    /\ UNCHANGED <<now, notSec>>

ResetThrottleState ==
    /\ secCall.n < MaxSecCalls
    /\ throttleState' = resetThrottleState(throttleState)
    /\ recorded' = {}
    /\ secCall' = SecCall("resetThrottleState", "", FALSE, [throttled |-> FALSE])
    /\ UNCHANGED <<now, notSec>>

\* Time passes between two calls.
Tick ==
    /\ now < StartTime + MaxTicks * TickMs
    /\ now' = now + TickMs
    /\ UNCHANGED <<throttleState, recorded, secCall, notSec>>

IsCall(fn) == secCall'.n = secCall.n + 1 /\ secCall'.fn = fn

\* C21: isDuplicateFile(h) returns true exactly when recordProcessing(h) was
\* called since the latest clearProcessedCache or resetThrottleState, both as
\* the function reads the state and as every call of it returned; and a
\* clearProcessedCache call empties the hash set while lastProcessTime and
\* the result of shouldThrottle stay what they were.
C21_DuplicateIffRecordedSinceClear ==
    /\ [](/\ \A h \in Hashes : isDuplicateFile(throttleState, h) <=> h \in recorded
          /\ secCall.fn = "isDuplicateFile" => (secCall.dup <=> secCall.hash \in recorded))
    /\ [][IsCall("clearProcessedCache") =>
             /\ \A h \in Hashes : ~isDuplicateFile(throttleState', h)
             /\ throttleState'.lastProcessTime = throttleState.lastProcessTime
             /\ shouldThrottle(throttleState', now') = shouldThrottle(throttleState, now)]_vars

\* recordProcessing("h1") made the request throttled and h1 a duplicate; after
\* clearProcessedCache h1 is no duplicate and the request is still throttled.
C21_Witness ==
    /\ secCall.fn = "clearProcessedCache"
    /\ throttleState.lastProcessTime = StartTime
    /\ shouldThrottle(throttleState, now).throttled
    /\ ~isDuplicateFile(throttleState, "h1")

(***************************************************************************)
(* Initial states and specifications                                      *)
(***************************************************************************)
HistInit ==
    /\ commands = <<>>
    /\ currentIndex = -1
    /\ editor = DefaultEditorState
    /\ executed = 0
    /\ calls = NoCall

PoolInitState ==
    /\ initialized = FALSE
    /\ workers = <<>>
    /\ queue = <<>>
    /\ activeJobs = {}
    /\ ctx = <<>>
    /\ reads = {}
    /\ nextJob = 1
    /\ trace = [j \in JobIds |-> <<>>]
    /\ spent = 0
    /\ provider = [items |-> [j \in JobIds |-> "none"], isProcessing |-> FALSE,
                   fetching |-> {}, updating |-> {}, calls |-> 0]

RenderInitState ==
    /\ canvas = NewCanvas
    /\ renders = <<>>
    /\ microtasks = <<>>

DefaultScene == [state |-> CHOOSE st \in SceneStates :
                              /\ st.effects = <<>>
                              /\ st.layers[1].visible /\ ~st.layers[2].visible /\ st.layers[3].visible,
                 bitmap |-> <<1000, 333>>]

BatchInitState ==
    /\ controllerRef = 0
    /\ aborted = {}
    /\ runs = <<>>
    /\ processedResults = <<>>
    /\ isProcessing = FALSE
    /\ processingProgress = Progress(0, 0, 0, "Waiting")
    /\ published = <<>>

DefaultFiles == [i \in 1..MaxFiles |-> i]

NoArg == [fn |-> "none"]

PixelInitState == arg = NoArg /\ ret = NotRun

EffectInitState ==
    /\ heap = HeapOf(<<>>)
    /\ cur = 4
    /\ last = NoCallYet

UploadInitState ==
    /\ pendingFiles = <<>>
    /\ showModeModal = FALSE
    /\ error = ""

SecurityInitState ==
    /\ throttleState = [lastProcessTime |-> 0, processedHashes |-> {}]
    /\ now = StartTime
    /\ recorded = {}
    /\ secCall = NoSecCall

Rest ==
    /\ RenderInitState /\ scene = DefaultScene
    /\ BatchInitState /\ files = DefaultFiles
    /\ UploadInitState
    /\ PixelInitState
    /\ EffectInitState
    /\ SecurityInitState

Init == PoolInitState /\ HistInit /\ Rest

InitRender ==
    /\ PoolInitState /\ HistInit /\ RenderInitState
    /\ scene \in [state : SceneStates, bitmap : Bitmaps]
    /\ BatchInitState /\ files = DefaultFiles
    /\ UploadInitState
    /\ PixelInitState
    /\ EffectInitState
    /\ SecurityInitState

\* The history after maxHistory calls execute(SET_LAYER bg 0 -> 0), made at the
\* times 1 - maxHistory .. 0: the log is full.  Two of those calls are counted
\* in `executed`, which leaves the run MaxCommands - 2 further calls.
HistInitFull ==
    /\ commands = [i \in 1..maxHistory |->
                     [type |-> "SET_LAYER", timestamp |-> i - maxHistory,
                      payload |-> [targetId |-> "bg", prevValue |-> 0, newValue |-> 0]]]
    /\ currentIndex = maxHistory - 1
    /\ editor = DefaultEditorState
    /\ executed = 2
    /\ calls = NoCall

InitFull == PoolInitState /\ HistInitFull /\ Rest

NextPool ==
    \/ AddJob
    \/ CancelJob
    \/ ReadResolved
    \/ ReadRejected
    \/ WorkerProgress
    \/ WorkerComplete
    \/ WorkerError
    \/ HandleMessage

SpecPool == Init /\ [][NextPool]_vars

\* The pool with its environment making progress: a file read settles, a
\* Worker that was handed bytes posts its result, and a posted message is
\* dispatched to handleMessage.
NextQueue ==
    \/ AddFiles
    \/ ProcessQueue
    \/ GetImageResolved
    \/ UpdateImageResolved
    \/ ReadResolved
    \/ ReadRejected
    \/ WorkerProgress
    \/ WorkerComplete
    \/ WorkerError
    \/ HandleMessage

SpecQueue == Init /\ [][NextQueue]_vars

SpecPoolFair ==
    /\ Init /\ [][NextPool]_vars
    /\ WF_vars(ReadResolved) /\ WF_vars(WorkerComplete) /\ WF_vars(HandleMessage)

NextHistory ==
    \/ Execute
    \/ Undo
    \/ Redo
    \/ Clear

SpecHistory == Init /\ [][NextHistory]_vars

SpecHistoryFull == InitFull /\ [][NextHistory]_vars

NextRender ==
    \/ RenderCall
    \/ RenderRestore
    \/ RenderResume
    \/ RenderEncoded

SpecRender == InitRender /\ [][NextRender]_vars

InitBatch ==
    /\ PoolInitState /\ HistInit /\ RenderInitState /\ scene = DefaultScene
    /\ BatchInitState
    /\ files \in {[i \in 1..n |-> i] : n \in 1..MaxFiles}
    /\ UploadInitState
    /\ PixelInitState
    /\ EffectInitState
    /\ SecurityInitState

NextBatch ==
    \/ ProcessAllImages
    \/ TimerFired
    \/ ProcessImageSettled
    \/ HandleCancelProcessing

SpecBatch == InitBatch /\ [][NextBatch]_vars

\* The modal and the worker pool share no state: each one's steps leave the
\* other's variables unchanged, so every behaviour of the two interleaved
\* projects onto a behaviour of each alone.  SpecBatchPool runs either one
\* from the common initial state.
NextBatchPool ==
    \/ runs = <<>> /\ AddJob
    \/ runs = <<>> /\ CancelJob
    \/ runs = <<>> /\ ReadResolved
    \/ runs = <<>> /\ ReadRejected
    \/ runs = <<>> /\ WorkerProgress
    \/ runs = <<>> /\ WorkerComplete
    \/ runs = <<>> /\ WorkerError
    \/ runs = <<>> /\ HandleMessage
    \/ ~initialized /\ ProcessAllImages
    \/ ~initialized /\ TimerFired
    \/ ~initialized /\ ProcessImageSettled
    \/ ~initialized /\ HandleCancelProcessing

SpecBatchPool == Init /\ [][NextBatchPool]_vars

NextUpload ==
    \/ HandleDrop
    \/ HandleFileInput
    \/ HandleAdditionalFiles
    \/ HandleRemoveFile
    \/ HandleCloseModal

SpecUpload == Init /\ [][NextUpload]_vars

NextSecurity ==
    \/ ShouldThrottle
    \/ RecordProcessing
    \/ IsDuplicateFile
    \/ ClearProcessedCache
    \/ ResetThrottleState
    \/ Tick

SpecSecurity == Init /\ [][NextSecurity]_vars

Others ==
    /\ PoolInitState /\ HistInit /\ RenderInitState /\ scene = DefaultScene
    /\ BatchInitState /\ files = DefaultFiles
    /\ UploadInitState
    /\ SecurityInitState

InitRemoveColor ==
    /\ Others /\ EffectInitState
    /\ arg \in [fn : {"removeSpecificColor"}, data : ColorImages,
                targetColor : TargetColors, tolerance : Tolerances]
    /\ ret = NotRun

SpecRemoveColor == InitRemoveColor /\ [][RemoveSpecificColor]_vars

InitProcessImage ==
    /\ Others /\ EffectInitState
    /\ arg \in [fn : {"processImage"}, data : ColorImages, config : Configs]
    /\ ret = NotRun

SpecProcessImage == InitProcessImage /\ [][ProcessImage]_vars

InitChunks ==
    /\ Others /\ EffectInitState
    /\ arg \in [fn : {"chunks"}, of : {"removeSpecificColor", "blurBackgroundOnly"},
                totalPixels : TotalPixels]
    /\ ret = LoopStart

NextChunks == ChunkRun \/ ChunkYielded \/ ChunkLoopExit

\* A timer set with setTimeout(resolve, 0) fires, and the code between two
\* awaits runs to completion.
SpecChunks == InitChunks /\ [][NextChunks]_vars /\ WF_vars(NextChunks)

InitFilter ==
    /\ Others /\ EffectInitState
    /\ arg \in [fn : {"applyFilter"}, data : FilterImages, params : FilterParams]
    /\ ret = NotRun

SpecFilter == InitFilter /\ [][ApplyFilter]_vars

InitBlur ==
    /\ Others /\ EffectInitState
    /\ \E n \in 1..MaxPixels :
          arg \in [fn : {"blurBackgroundOnly"}, mask : [1..n -> MaskAlphas],
                   sharp : [1..n -> SharpPixels], blurred : [1..n -> BlurredPixels]]
    /\ ret = NotRun

SpecBlur == InitBlur /\ [][BlurBackgroundOnly]_vars

InitEffects ==
    /\ Others /\ PixelInitState
    /\ \E n \in 0..MaxNodes : \E nodes \in [1..n -> NodeChoices] : heap = HeapOf(nodes)
    /\ cur = 4
    /\ last = NoCallYet

NextEffects ==
    \/ UpdateEffect
    \/ ToggleEffect
    \/ AddEffect
    \/ RemoveEffect

SpecEffects == InitEffects /\ [][NextEffects]_vars

====
